---- MODULE Spec2Model ----
(***************************************************************************)
(* Model of the fin_data_scraper package (Project 2):                      *)
(*   - SitemapParser (xml_sitemap_parser.py): robots.txt -> sitemaps ->    *)
(*     catalog of tables, with recursion into nested sitemaps;             *)
(*   - LinkScraper (html_content_scraper.py): the four-level link crawl;   *)
(*   - DataScraper (html_content_scraper.py): the fields of a detail page; *)
(*   - the CSV files the save methods write.                               *)
(*                                                                         *)
(* Strings are sequences of tokens.  A token is "/", ".", " " or a word    *)
(* that holds none of these characters, so that the string operations the  *)
(* code uses (endswith, basename, split, strip, replace, startswith) are   *)
(* computed on the token sequence exactly as on the characters.            *)
(***************************************************************************)
EXTENDS Naturals, Sequences, FiniteSets, TLC

(***************************************************************************)
(* Bounds                                                                  *)
(***************************************************************************)
\* The interpreter's recursion limit (sys.getrecursionlimit(), 1000 frames
\* in CPython), scaled down: the deepest nesting of parse_sitemap calls.
RecursionLimit == 3

\* The calls of scrape() and get_dataframe() made on one LinkScraper.
MaxCalls == 2

\* The calls of start_parsing() made on one SitemapParser.
MaxRuns == 2

\* The calls of a save method made on one object.
MaxSaves == 2

(***************************************************************************)
(* Generic string (token sequence) operations                              *)
(***************************************************************************)
Max(S) == CHOOSE x \in S : \A y \in S : y <= x

Min(S) == CHOOSE x \in S : \A y \in S : x <= y

\* Positions of token t in s.
Positions(s, t) == {i \in 1..Len(s) : s[i] = t}

\* str.endswith(suf)
EndsWith(s, suf) ==
    /\ Len(s) >= Len(suf)
    /\ SubSeq(s, Len(s) - Len(suf) + 1, Len(s)) = suf

\* str.startswith(pre)
StartsWith(s, pre) ==
    /\ Len(s) >= Len(pre)
    /\ SubSeq(s, 1, Len(pre)) = pre

\* str.strip(t) for a one-character t: drops every leading and trailing t.
Strip(s, t) ==
    LET keep == {i \in 1..Len(s) : s[i] # t}
    IN  IF keep = {} THEN <<>> ELSE SubSeq(s, Min(keep), Max(keep))

\* str.split(t) for a one-token separator t: the pieces between the
\* occurrences of t (k occurrences give k + 1 pieces, some possibly empty).
RECURSIVE Split(_, _)
Split(s, t) ==
    IF Positions(s, t) = {}
    THEN <<s>>
    ELSE LET p == Min(Positions(s, t))
         IN  <<SubSeq(s, 1, p - 1)>> \o Split(SubSeq(s, p + 1, Len(s)), t)

\* str.replace(old, "") : every non-overlapping occurrence of old, scanning
\* from the left, is dropped.
RECURSIVE Remove(_, _)
Remove(s, old) ==
    IF s = <<>> THEN <<>>
    ELSE IF StartsWith(s, old) THEN Remove(SubSeq(s, Len(old) + 1, Len(s)), old)
    ELSE <<s[1]>> \o Remove(Tail(s), old)

\* os.path.basename(p): what follows the last "/".
Basename(p) ==
    IF Positions(p, "/") = {} THEN p
    ELSE SubSeq(p, Max(Positions(p, "/")) + 1, Len(p))

(***************************************************************************)
(* The web the sitemap parser reads                                        *)
(***************************************************************************)
\* self.domain
domain == <<"https:", "/", "/", "example", ".", "com">>

RobotsUrl == domain \o <<"/", "robots", ".", "txt">>

\* Sitemap URLs.  Sa and Sda have the same basename.
Sa  == domain \o <<"/", "a", ".", "xml">>
Sb  == domain \o <<"/", "b", ".", "xml">>
Sda == domain \o <<"/", "d", "/", "a", ".", "xml">>

\* Leaf URLs (content pages).  Lx ends in the word xml but not in ".xml".
Lp == domain \o <<"/", "p", "/", "q">>
Lx == domain \o <<"/", "xml">>

SitemapUrls == {Sa, Sb, Sda}

LeafUrls == {Lp, Lx}

\* A response: the status of the request and the body it carries.  A body
\* is empty (the empty string) or an XML document, of which the model keeps
\* the texts of its <loc> elements in document order.
Response(st, em, ls) == [status |-> st, empty |-> em, locs |-> ls]

\* An HTTP error status (404, 503) comes with a body of its own, which
\* raise_for_status discards; a transport error comes with none.
HttpError == Response("http_error", FALSE, <<Lp>>)

TransportError == Response("transport_error", TRUE, <<>>)

EmptyBody == Response("ok", TRUE, <<>>)

Xml(ls) == Response("ok", FALSE, ls)

\* What a sitemap URL may answer.
SitemapResponses ==
    { HttpError, TransportError, EmptyBody,
      Xml(<<>>), Xml(<<Lp>>), Xml(<<Lx, Lp>>),
      Xml(<<Sb, Lp>>), Xml(<<Lp, Sda, Sb>>), Xml(<<Sa>>) }

\* Lines of robots.txt.
SitemapLine(u) == <<"Sitemap:", " ">> \o u

OtherLine == <<"User-agent:", " ", "*">>

\* What robots.txt may answer: a status and the lines of the body.
Robots(st, ls) == [status |-> st, lines |-> ls]

RobotsResponses ==
    { Robots("http_error", <<SitemapLine(Sa)>>),
      Robots("transport_error", <<>>),
      Robots("ok", <<>>),
      Robots("ok", <<OtherLine>>),
      Robots("ok", <<SitemapLine(Sa)>>),
      Robots("ok", <<SitemapLine(Sa), SitemapLine(Sb)>>),
      Robots("ok", <<OtherLine, SitemapLine(Sb), SitemapLine(Sa)>>),
      Robots("ok", <<SitemapLine(Sa), SitemapLine(Sda)>>),
      Robots("ok", <<SitemapLine(Sda), SitemapLine(Sa)>>),
      Robots("ok", <<SitemapLine(Sb), SitemapLine(Sb)>>) }

\* Other forms of a line: the marker in lower case, after a blank, with
\* blanks around the URL, with no blank at all.
LowerCaseLine(u) == <<"sitemap:", " ">> \o u

IndentedLine(u) == <<" ">> \o SitemapLine(u)

PaddedLine(u) == <<"Sitemap:", " ", " ">> \o u \o <<" ">>

TightLine(u) == <<"Sitemap:">> \o u

\* The site's root, and a sitemap URL with the text Sitemap: in its path.
Root == domain \o <<"/">>

Smarked == domain \o <<"/", "Sitemap:", "/", "a", ".", "xml">>

RobotsLines ==
    { OtherLine, SitemapLine(Sa), LowerCaseLine(Sa), IndentedLine(Sb),
      PaddedLine(Sb), TightLine(Sa), SitemapLine(Smarked) }

\* robots.txt files of one or two lines of any of these forms.
LineForms ==
    { Robots("ok", <<l>>) : l \in RobotsLines }
        \cup { Robots("ok", <<l1, l2>>) : l1, l2 \in RobotsLines }

\* The robots.txt of a site over time, and the webs, of a parser that is
\* run more than once.
RerunRobots ==
    { Robots("transport_error", <<>>),
      Robots("ok", <<SitemapLine(Sa)>>),
      Robots("ok", <<SitemapLine(Sb)>>),
      Robots("ok", <<SitemapLine(Sa), SitemapLine(Sb)>>) }

RerunResponses == { TransportError, Xml(<<Lp>>), Xml(<<Sb, Lp>>) }

\* The webs: every sitemap URL answers one of SitemapResponses, and every
\* content page is an HTML page, which holds no <loc> element.
Webs ==
    { [u \in SitemapUrls \cup LeafUrls |->
          IF u \in SitemapUrls THEN w[u] ELSE Xml(<<>>)] :
      w \in [SitemapUrls -> SitemapResponses] }

(***************************************************************************)
(* The site the link scraper crawls                                        *)
(***************************************************************************)
\* self.base_url
base_url == domain \o <<"/", "cat", "/", "index">>

\* self.class_names
class_names == <<"c1", "c2", "c3", "c4">>

P1 == domain \o <<"/", "cat", "/", "p1">>
P2 == domain \o <<"/", "cat", "/", "p2">>
P3 == domain \o <<"/", "shop", "/", "p3">>

LinkUrls == {base_url, P1, P2, P3}

\* HTML elements: an anchor with an href attribute, an anchor without one,
\* and an element that carries a class and holds other elements.
A(href) ==
    [tag |-> "a", class |-> "", has_href |-> TRUE, href |-> href,
     children |-> <<>>]

ANoHref ==
    [tag |-> "a", class |-> "", has_href |-> FALSE, href |-> <<>>,
     children |-> <<>>]

Div(cls, children) ==
    [tag |-> "div", class |-> cls, has_href |-> FALSE, href |-> <<>>,
     children |-> children]

\* hrefs: relative to the directory, relative to the root, absolute.
RelP1 == <<"p1">>
RelP2 == <<"p2">>
RootP3 == <<"/", "shop", "/", "p3">>

\* A link to a page the site does not have.
RelGone == <<"gone">>

\* Pages, as the sequence of the elements of the body.
CatPage == <<Div("c1", <<A(P2), A(RelP1), A(RelGone)>>)>>

FilterPage == <<Div("c2", <<A(P2), A(RelP1)>>)>>

PagingPage ==
    <<Div("c3", <<A(RootP3), ANoHref, A(RelP1)>>), Div("c4", <<A(P2)>>)>>

DetailPage == <<Div("c4", <<A(RelP1), A(<<>>), A(RelGone)>>)>>

FullPage ==
    <<Div("c1", <<A(P1), A(P2)>>),
      Div("c2", <<A(RelP2), A(P1)>>),
      Div("c3", <<A(RootP3), A(P1)>>),
      Div("c4", <<Div("c4", <<A(RelP2)>>)>>)>>

\* What a page URL may answer: a status and the body.
Html(st, page) == [status |-> st, page |-> page]

NotFound == Html("http_error", FullPage)

LinkResponses ==
    { NotFound, Html("transport_error", <<>>), Html("ok", <<>>),
      Html("ok", CatPage), Html("ok", FilterPage), Html("ok", PagingPage),
      Html("ok", DetailPage), Html("ok", FullPage) }

VARIABLES
    robots,              \* the answer of {domain}/robots.txt
    web,                 \* the answer of every other URL of the domain
    pc,                  \* where start_parsing stands
    lines,               \* robots_txt_content.splitlines()
    line_no,             \* the line the loop of get_all_sitemaps is at
    stack,               \* the active parse_sitemap calls, outermost first
    sitemap_dataframes,  \* the catalog: key -> table
    trace                \* history: the fetches and insertions, in order

VARIABLES
    link_web,              \* the answer of every page URL
    df,                    \* self.df: the Link column
    lpc,                   \* where the LinkScraper stands
    op,                    \* the method whose call is running
    all_links,             \* scrape's locals
    cat_content_links,
    filter_content_links,
    paging_links,
    i1, i2, i3,            \* the positions of the three nested loops
    fetched,               \* history: the fetches of the last crawl
    calls                  \* history: the calls that returned

sitemap_vars ==
    <<robots, web, pc, lines, line_no, stack, sitemap_dataframes, trace>>

link_vars ==
    <<link_web, df, lpc, op, all_links, cat_content_links,
      filter_content_links, paging_links, i1, i2, i3, fetched, calls>>

VARIABLES
    directory,           \* the directory save_as_csv writes to
    dir_saves,           \* history: the calls of save_as_csv
    csv_file,            \* the file save_to_csv writes to
    csv_saves            \* history: the calls of save_to_csv

VARIABLES
    soup,                \* what DataScraper.fetch_content handed to scrape
    scraped              \* what scrape(soup) came to

VARIABLES
    input,               \* the arguments a function is called with
    output               \* what the call came to

VARIABLES
    detail_web,          \* the answer of every detail page URL
    data,                \* DataScraper.data
    site_calls           \* history: the calls of scrape_sites

save_vars == <<directory, dir_saves, csv_file, csv_saves>>

detail_vars == <<soup, scraped>>

pure_vars == <<input, output>>

sites_vars == <<detail_web, data, site_calls>>

vars ==
    <<sitemap_vars, link_vars, save_vars, detail_vars, pure_vars, sites_vars>>

\* No function was called; no call returned.
NoInput == [op |-> "none"]

NoOutput == [outcome |-> "none"]

\* What a step of one component leaves alone.
beside_sitemap ==
    <<link_vars, save_vars, detail_vars, pure_vars, sites_vars>>

beside_link ==
    <<sitemap_vars, save_vars, detail_vars, pure_vars, sites_vars>>

(***************************************************************************)
(* SitemapParser                                                           *)
(***************************************************************************)
\* fetch_content(url) for a sitemap: the body, or "" when the request raised.
FetchContent(url) ==
    IF web[url].status = "ok" THEN web[url] ELSE EmptyBody

\* Mutant: fetch_content without raise_for_status, the body of an error page
\* is read as robots.txt.
FetchRobots_NoRaiseForStatus == robots.lines

\* fetch_content(robots_txt_url).splitlines(); no line for "".
FetchRobots ==
    IF robots.status = "ok" THEN robots.lines ELSE <<>>

\* Mutant: the test looks at the last word only ("xml" in place of ".xml").
IsXml_LastWord(url) == url # <<>> /\ url[Len(url)] = "xml"

\* url.endswith(".xml")
IsXml(url) == EndsWith(url, <<".", "xml">>)

\* generate_key: os.path.basename(sitemap_url).split(".")[0]
generate_key(sitemap_url) == Split(Basename(sitemap_url), ".")[1]

\* Mutant: the slashes around the path are kept.
extract_NoStrip(url) == Split(Remove(url, domain), "/")

\* extract (inner function of extract_subdirectories)
extract(url) == Split(Strip(Remove(url, domain), "/"), "/")

\* A cell that was never filled (NaN).
NaN == <<"NaN">>

\* Mutant: fillna("") is left out, the cells past a row's segments stay NaN.
extract_subdirectories_NoFillna(urls) ==
    LET max_subdir ==
            IF urls = <<>> THEN 0
            ELSE Max({Len(extract(urls[i])) : i \in 1..Len(urls)})
    IN  [i \in 1..Len(urls) |->
            [URLs |-> urls[i],
             subdirectory |->
                 [j \in 1..max_subdir |->
                     IF j <= Len(extract(urls[i]))
                     THEN extract(urls[i])[j] ELSE NaN]]]

\* extract_subdirectories: one row per URL, with its segments padded with ""
\* to the longest row of the table.
extract_subdirectories(urls) ==
    LET max_subdir ==
            IF urls = <<>> THEN 0
            ELSE Max({Len(extract(urls[i])) : i \in 1..Len(urls)})
    IN  [i \in 1..Len(urls) |->
            [URLs |-> urls[i],
             subdirectory |->
                 [j \in 1..max_subdir |->
                     IF j <= Len(extract(urls[i]))
                     THEN extract(urls[i])[j] ELSE <<>>]]]

\* Mutant: d.setdefault(key, df), the first table stored under a key stays.
DictSet_SetDefault(d, key, value) ==
    [k \in (DOMAIN d) \cup {key} |-> IF k \in DOMAIN d THEN d[k] ELSE value]

\* The dictionary d after d[key] = value.
DictSet(d, key, value) ==
    [k \in (DOMAIN d) \cup {key} |-> IF k = key THEN value ELSE d[k]]

\* Mutant: a sitemap without <loc> leaves the catalog as it is.
create_dataframe_SkipEmpty(sitemap_url, urls) ==
    IF urls = <<>> THEN sitemap_dataframes
    ELSE DictSet(sitemap_dataframes, generate_key(sitemap_url),
                 extract_subdirectories(urls))

\* Mutant: only the leaf URLs become rows.
create_dataframe_LeavesOnly(sitemap_url, urls) ==
    LET IsLeaf(u) == ~IsXml(u)
    IN  DictSet(sitemap_dataframes, generate_key(sitemap_url),
                extract_subdirectories(SelectSeq(urls, IsLeaf)))

\* create_dataframe: the catalog after the insertion.
create_dataframe(sitemap_url, urls) ==
    DictSet(sitemap_dataframes, generate_key(sitemap_url),
            extract_subdirectories(urls))

\* History: fetch_content(url) was called, by the call that resolves
\* `parent` (RobotsUrl for get_all_sitemaps, domain for start_parsing).
Fetched(url, parent) == [ev |-> "fetch", url |-> url, parent |-> parent]

\* History: the table of sitemap `url` was stored in the catalog.
Inserted(url) == [ev |-> "insert", url |-> url]

\* The URL whose resolution makes the next call, with `caller` active.
Caller(caller) ==
    IF caller = <<>> THEN RobotsUrl ELSE caller[Len(caller)].sitemap_url

\* Mutant: a sitemap URL that was fetched before is not resolved again.
CallParseSitemap_Visited(sitemap_url, caller) ==
    IF \E n \in DOMAIN trace :
           trace[n].ev = "fetch" /\ trace[n].url = sitemap_url
    THEN /\ stack' = caller
         /\ UNCHANGED <<pc, trace, sitemap_dataframes>>
    ELSE IF Len(caller) >= RecursionLimit
    THEN /\ pc' = "raised"
         /\ stack' = caller
         /\ UNCHANGED <<trace, sitemap_dataframes>>
    ELSE LET xml_content == FetchContent(sitemap_url)
         IN  /\ trace' = Append(trace, Fetched(sitemap_url, Caller(caller)))
             /\ stack' = IF xml_content.empty
                         THEN caller
                         ELSE Append(caller, [sitemap_url |-> sitemap_url,
                                              urls |-> xml_content.locs,
                                              i |-> 1])
             /\ UNCHANGED <<pc, sitemap_dataframes>>

\* Mutant: no early return on empty content, the call goes on with no <loc>.
CallParseSitemap_NoEarlyReturn(sitemap_url, caller) ==
    IF Len(caller) >= RecursionLimit
    THEN /\ pc' = "raised"
         /\ stack' = caller
         /\ UNCHANGED <<trace, sitemap_dataframes>>
    ELSE /\ trace' = Append(trace, Fetched(sitemap_url, Caller(caller)))
         /\ stack' = Append(caller, [sitemap_url |-> sitemap_url,
                                     urls |-> FetchContent(sitemap_url).locs,
                                     i |-> 1])
         /\ UNCHANGED <<pc, sitemap_dataframes>>

\* Mutant: the table is stored on entry too, before the nested sitemaps are
\* resolved.
CallParseSitemap_TableFirst(sitemap_url, caller) ==
    IF Len(caller) >= RecursionLimit
    THEN /\ pc' = "raised"
         /\ stack' = caller
         /\ UNCHANGED <<trace, sitemap_dataframes>>
    ELSE LET xml_content == FetchContent(sitemap_url)
         IN  IF xml_content.empty
             THEN /\ trace' = Append(trace, Fetched(sitemap_url, Caller(caller)))
                  /\ stack' = caller
                  /\ UNCHANGED <<pc, sitemap_dataframes>>
             ELSE /\ trace' = trace \o <<Fetched(sitemap_url, Caller(caller)),
                                          Inserted(sitemap_url)>>
                  /\ sitemap_dataframes' =
                         create_dataframe(sitemap_url, xml_content.locs)
                  /\ stack' = Append(caller,
                         [sitemap_url |-> sitemap_url,
                          urls |-> xml_content.locs,
                          i |-> 1])
                  /\ pc' = pc

\* A call parse_sitemap(sitemap_url) made with the calls of `caller` active,
\* up to its first nested call or its return: the fetch, the early return
\* on empty content, and otherwise a new frame at the first <loc>.  Past
\* the recursion limit the interpreter raises RecursionError, which nothing
\* catches: start_parsing ends there (stack keeps the traceback).
CallParseSitemap(sitemap_url, caller) ==
    IF Len(caller) >= RecursionLimit
    THEN /\ pc' = "raised"
         /\ stack' = caller
         /\ UNCHANGED <<trace, sitemap_dataframes>>
    ELSE LET xml_content == FetchContent(sitemap_url)
         IN  /\ trace' = Append(trace, Fetched(sitemap_url, Caller(caller)))
             /\ stack' = IF xml_content.empty
                         THEN caller
                         ELSE Append(caller, [sitemap_url |-> sitemap_url,
                                              urls |-> xml_content.locs,
                                              i |-> 1])
             /\ UNCHANGED <<pc, sitemap_dataframes>>

\* start_parsing -> get_all_sitemaps, up to the loop over the lines.
StartParsing ==
    /\ pc = "idle"
    /\ lines' = FetchRobots
    /\ line_no' = 1
    /\ pc' = IF FetchRobots = <<>> THEN "done" ELSE "parsing"
    /\ trace' = Append(trace, Fetched(RobotsUrl, domain))
    /\ UNCHANGED <<robots, web, stack, sitemap_dataframes>>
    /\ UNCHANGED beside_sitemap

\* One line of robots.txt in get_all_sitemaps.
RobotsLine ==
    /\ pc = "parsing"
    /\ stack = <<>>
    /\ line_no <= Len(lines)
    /\ line_no' = line_no + 1
    /\ LET line == lines[line_no]
       IN  IF StartsWith(line, <<"Sitemap:">>)
           THEN CallParseSitemap(Strip(Split(line, "Sitemap:")[2], " "), stack)
           ELSE UNCHANGED <<pc, stack, sitemap_dataframes, trace>>
    /\ UNCHANGED <<robots, web, lines>>
    /\ UNCHANGED beside_sitemap

\* The loop over the lines is over: get_all_sitemaps returns.
Return ==
    /\ pc = "parsing"
    /\ stack = <<>>
    /\ line_no > Len(lines)
    /\ pc' = "done"
    /\ UNCHANGED <<robots, web, lines, line_no, stack, sitemap_dataframes, trace>>
    /\ UNCHANGED beside_sitemap

\* One <loc> of the innermost active parse_sitemap: a nested call when it
\* ends in ".xml".
LocStep ==
    /\ pc = "parsing"
    /\ stack # <<>>
    /\ LET top == stack[Len(stack)]
       IN  /\ top.i <= Len(top.urls)
           /\ LET url == top.urls[top.i]
                  advanced == [stack EXCEPT ![Len(stack)].i = top.i + 1]
              IN  IF IsXml(url)
                  THEN CallParseSitemap(url, advanced)
                  ELSE /\ stack' = advanced
                       /\ UNCHANGED <<pc, sitemap_dataframes, trace>>
    /\ UNCHANGED <<robots, web, lines, line_no>>
    /\ UNCHANGED beside_sitemap

\* The loop over the <loc>s is over: create_dataframe, and the call returns.
CreateDataframe ==
    /\ pc = "parsing"
    /\ stack # <<>>
    /\ LET top == stack[Len(stack)]
       IN  /\ top.i > Len(top.urls)
           /\ sitemap_dataframes' = create_dataframe(top.sitemap_url, top.urls)
           /\ trace' = Append(trace, Inserted(top.sitemap_url))
    /\ stack' = SubSeq(stack, 1, Len(stack) - 1)
    /\ UNCHANGED <<robots, web, pc, lines, line_no>>
    /\ UNCHANGED beside_sitemap

\* The calls of start_parsing so far: each one begins with robots.txt.
Runs == Cardinality({n \in DOMAIN trace : trace[n] = Fetched(RobotsUrl, domain)})

\* start_parsing called again on the same SitemapParser, after a call that
\* returned: get_all_sitemaps runs on the catalog as the last call left it.
StartParsingAgain ==
    /\ pc = "done"
    /\ Runs < MaxRuns
    /\ lines' = FetchRobots
    /\ line_no' = 1
    /\ pc' = IF FetchRobots = <<>> THEN "done" ELSE "parsing"
    /\ trace' = Append(trace, Fetched(RobotsUrl, domain))
    /\ UNCHANGED <<robots, web, stack, sitemap_dataframes>>
    /\ UNCHANGED beside_sitemap

\* Between two calls the site publishes another robots.txt, or robots.txt
\* stops or starts to answer.
SiteChanges ==
    /\ pc = "done"
    /\ Runs < MaxRuns
    /\ robots' \in RerunRobots \ {robots}
    /\ UNCHANGED <<web, pc, lines, line_no, stack, sitemap_dataframes, trace>>
    /\ UNCHANGED beside_sitemap

(***************************************************************************)
(* LinkScraper                                                             *)
(***************************************************************************)
\* What fetch_content hands back: the text, or the exception that escapes.
Returned(text) == [raised |-> FALSE, text |-> text]

Raised == [raised |-> TRUE, text |-> <<>>]

\* The answer of url; a URL the site does not know is not found.
Answer(url) == IF url \in DOMAIN link_web THEN link_web[url] ELSE NotFound

\* Mutant: only requests.HTTPError is caught, a transport error escapes.
LinkFetchContent_OnlyHTTPError(url) ==
    IF Answer(url).status = "ok" THEN Returned(Answer(url).page)
    ELSE IF Answer(url).status = "http_error" THEN Returned(<<>>)
    ELSE Raised

\* LinkScraper.fetch_content: response.text, or "" when requests.get or
\* raise_for_status raised (HTTPError in the first handler, anything else in
\* the second).
LinkFetchContent(url) ==
    IF Answer(url).status = "ok" THEN Returned(Answer(url).page)
    ELSE IF Answer(url).status = "http_error" THEN Returned(<<>>)
    ELSE Returned(<<>>)

\* The URL parts urljoin works with: scheme and host, and the directory.
PathStart(u) ==
    LET later == {i \in Positions(u, "/") : i > 3}
    IN  IF later = {} THEN Len(u) + 1 ELSE Min(later)

Origin(u) == SubSeq(u, 1, PathStart(u) - 1)

Directory(u) ==
    IF PathStart(u) > Len(u) THEN Origin(u) \o <<"/">>
    ELSE SubSeq(u, 1, Max(Positions(u, "/")))

\* Mutant: the href is kept as the page wrote it.
urljoin_Unresolved(base, url) == url

\* urllib.parse.urljoin(base, url), for hrefs with a path only.
urljoin(base, url) ==
    IF url = <<>> THEN base
    ELSE IF StartsWith(url, <<"https:">>) THEN url
    ELSE IF url[1] = "/" THEN Origin(base) \o url
    ELSE Directory(base) \o url

\* The elements below `nodes`, themselves included, in document order.
RECURSIVE Descendants(_)
Descendants(nodes) ==
    IF nodes = <<>> THEN <<>>
    ELSE <<Head(nodes)>> \o Descendants(Head(nodes).children)
                         \o Descendants(Tail(nodes))

\* The links of the anchors a_tags: those with a non-empty href.
RECURSIVE Hrefs(_)
Hrefs(a_tags) ==
    IF a_tags = <<>> THEN <<>>
    ELSE (IF Head(a_tags).has_href /\ Head(a_tags).href # <<>>
          THEN <<urljoin(base_url, Head(a_tags).href)>>
          ELSE <<>>) \o Hrefs(Tail(a_tags))

RECURSIVE ContainerLinks(_)
ContainerLinks(containers) ==
    IF containers = <<>> THEN <<>>
    ELSE LET IsA(n) == n.tag = "a"
         IN  Hrefs(SelectSeq(Descendants(Head(containers).children), IsA))
                 \o ContainerLinks(Tail(containers))

\* Mutant: a link is kept once, where it shows first.
RECURSIVE Unique(_)
Unique(links) ==
    IF links = <<>> THEN <<>>
    ELSE LET rest == Unique(SubSeq(links, 1, Len(links) - 1))
             last == links[Len(links)]
         IN  IF \E n \in DOMAIN rest : rest[n] = last
             THEN rest ELSE Append(rest, last)

parse_for_links_Unique(content, class_name) ==
    LET HasClass(n) == n.class = class_name
    IN  Unique(ContainerLinks(SelectSeq(Descendants(content), HasClass)))

\* parse_for_links
parse_for_links(content, class_name) ==
    LET HasClass(n) == n.class = class_name
    IN  ContainerLinks(SelectSeq(Descendants(content), HasClass))

\* Mutant: the whole list is followed.
FirstOnly_All(links) == links

\* Mutant: the last link is followed, links[-1:].
FirstOnly_Last(links) == SubSeq(links, Max({1, Len(links)}), Len(links))

\* links[:1]
FirstOnly(links) == SubSeq(links, 1, Min({1, Len(links)}))

\* Mutant: get_dataframe never crawls.
Empty_Never(table) == FALSE

\* Mutant: get_dataframe crawls whatever the table holds.
Empty_Always(table) == TRUE

\* DataFrame.empty
Empty(table) == Len(table) = 0

\* History: the fetch made at `level` for the link at position no of the
\* list that level walks, and the links parsed from what it returned.
Fetch(url, level, no, links) ==
    [url |-> url, level |-> level, no |-> no, links |-> links]

\* scrape(), up to the second level: the fetch of base_url and its links.
BeginScrape(method) ==
    LET content == LinkFetchContent(base_url)
        links == parse_for_links(content.text, class_names[1])
    IN  /\ op' = method
        /\ all_links' = <<>>
        /\ filter_content_links' = <<>>
        /\ paging_links' = <<>>
        /\ i1' = 1
        /\ i2' = 1
        /\ i3' = 1
        /\ IF content.raised
           THEN /\ lpc' = "raised"
                /\ cat_content_links' = <<>>
                /\ fetched' = <<>>
           ELSE /\ lpc' = "loop1"
                /\ cat_content_links' = links
                /\ fetched' = <<Fetch(base_url, 1, 1, links)>>
        /\ UNCHANGED <<link_web, df, calls>>

\* A call of scrape().
Scrape ==
    /\ lpc = "idle"
    /\ Len(calls) < MaxCalls
    /\ BeginScrape("scrape")
    /\ UNCHANGED beside_link

\* A call of get_dataframe(): the table as it is, or a crawl first.
GetDataframe ==
    /\ lpc = "idle"
    /\ Len(calls) < MaxCalls
    /\ IF Empty(df)
       THEN BeginScrape("get_dataframe")
       ELSE /\ calls' = Append(calls, [op |-> "get_dataframe", result |-> df,
                                       fetches |-> 0])
            /\ UNCHANGED <<link_web, df, lpc, op, all_links, cat_content_links,
                           filter_content_links, paging_links, i1, i2, i3,
                           fetched>>
    /\ UNCHANGED beside_link

\* Second level: one link of cat_content_links[:1].
SecondLevel ==
    /\ lpc = "loop1"
    /\ i1 <= Len(FirstOnly(cat_content_links))
    /\ LET link == FirstOnly(cat_content_links)[i1]
           content == LinkFetchContent(link)
           links == parse_for_links(content.text, class_names[2])
       IN  IF content.raised
           THEN /\ lpc' = "raised"
                /\ UNCHANGED <<filter_content_links, i1, i2, fetched>>
           ELSE /\ lpc' = "loop2"
                /\ filter_content_links' = links
                /\ i1' = i1 + 1
                /\ i2' = 1
                /\ fetched' = Append(fetched, Fetch(link, 2, i1, links))
    /\ UNCHANGED <<link_web, df, op, all_links, cat_content_links,
                   paging_links, i3, calls>>
    /\ UNCHANGED beside_link

\* Third level: one link of filter_content_links[:1].
ThirdLevel ==
    /\ lpc = "loop2"
    /\ i2 <= Len(FirstOnly(filter_content_links))
    /\ LET f_link == FirstOnly(filter_content_links)[i2]
           content == LinkFetchContent(f_link)
           links == parse_for_links(content.text, class_names[3])
       IN  IF content.raised
           THEN /\ lpc' = "raised"
                /\ UNCHANGED <<paging_links, i2, i3, fetched>>
           ELSE /\ lpc' = "loop3"
                /\ paging_links' = links
                /\ i2' = i2 + 1
                /\ i3' = 1
                /\ fetched' = Append(fetched, Fetch(f_link, 3, i2, links))
    /\ UNCHANGED <<link_web, df, op, all_links, cat_content_links,
                   filter_content_links, i1, calls>>
    /\ UNCHANGED beside_link

\* Mutant: the links of a page are put in front of those kept so far.
FourthLevel_Prepend ==
    /\ lpc = "loop3"
    /\ i3 <= Len(paging_links)
    /\ LET p_link == paging_links[i3]
           content == LinkFetchContent(p_link)
           add_image_links == parse_for_links(content.text, class_names[4])
       IN  /\ lpc' = "loop3"
           /\ all_links' = add_image_links \o all_links
           /\ i3' = i3 + 1
           /\ fetched' = Append(fetched, Fetch(p_link, 4, i3, add_image_links))
    /\ UNCHANGED <<link_web, df, op, cat_content_links, filter_content_links,
                   paging_links, i1, i2, calls>>
    /\ UNCHANGED beside_link

\* Fourth level: one link of paging_links, whose links are kept.
FourthLevel ==
    /\ lpc = "loop3"
    /\ i3 <= Len(paging_links)
    /\ LET p_link == paging_links[i3]
           content == LinkFetchContent(p_link)
           add_image_links == parse_for_links(content.text, class_names[4])
       IN  IF content.raised
           THEN /\ lpc' = "raised"
                /\ UNCHANGED <<all_links, i3, fetched>>
           ELSE /\ lpc' = "loop3"
                /\ all_links' = all_links \o add_image_links
                /\ i3' = i3 + 1
                /\ fetched' = Append(fetched, Fetch(p_link, 4, i3, add_image_links))
    /\ UNCHANGED <<link_web, df, op, cat_content_links, filter_content_links,
                   paging_links, i1, i2, calls>>
    /\ UNCHANGED beside_link

\* The third or the fourth level's loop is over: the loop around it goes on.
EndLoop ==
    /\ IF lpc = "loop3"
       THEN i3 > Len(paging_links) /\ lpc' = "loop2"
       ELSE /\ lpc = "loop2"
            /\ i2 > Len(FirstOnly(filter_content_links))
            /\ lpc' = "loop1"
    /\ UNCHANGED <<link_web, df, op, all_links, cat_content_links,
                   filter_content_links, paging_links, i1, i2, i3, fetched,
                   calls>>
    /\ UNCHANGED beside_link

\* The second level's loop is over: the table is built and the call returns
\* (get_dataframe returns self.df, scrape returns nothing).
FinishScrape ==
    /\ lpc = "loop1"
    /\ i1 > Len(FirstOnly(cat_content_links))
    /\ df' = all_links
    /\ lpc' = "idle"
    /\ calls' = Append(calls, [op |-> op, result |-> all_links,
                               fetches |-> Len(fetched)])
    /\ UNCHANGED <<link_web, op, all_links, cat_content_links,
                   filter_content_links, paging_links, i1, i2, i3, fetched>>
    /\ UNCHANGED beside_link

(***************************************************************************)
(* Files                                                                   *)
(***************************************************************************)
\* A CSV file as DataFrame.to_csv(path, index=False) writes it: the line of
\* the column names, then one line of cells per row.
Csv(header, rows) == [header |-> header, rows |-> rows]

\* A path that names nothing, and a path that names a file.
NoFile == [exists |-> FALSE, content |-> Csv(<<>>, <<>>)]

File(content) == [exists |-> TRUE, content |-> content]

\* A directory: whether it exists, and its files by name.
NoDirectory == [exists |-> FALSE, files |-> <<>>]

Folder(files) == [exists |-> TRUE, files |-> files]

\* f"{key}.csv"
FileName(key) == key \o <<".", "csv">>

\* The column names of a table of the catalog: URLs, subdirectory1, ...
Columns(table) ==
    << <<"URLs">> >>
        \o (IF table = <<>> THEN <<>>
            ELSE [j \in DOMAIN table[1].subdirectory |-> <<"subdirectory", j>>])

\* Mutant: to_csv(filepath), with the index as a first column without a
\* name.
to_csv_WithIndex(table) ==
    Csv(<< <<>> >> \o Columns(table),
        [i \in DOMAIN table |->
            << <<"index", i>> >> \o <<table[i].URLs>> \o table[i].subdirectory])

\* df.to_csv(filepath, index=False) for a table of the catalog.
to_csv(table) ==
    Csv(Columns(table),
        [i \in DOMAIN table |-> <<table[i].URLs>> \o table[i].subdirectory])

\* self.df.to_csv(file_name, index=False) for the Link table.
link_to_csv(table) ==
    Csv(<< <<"Link">> >>, [n \in DOMAIN table |-> <<table[n]>>])

\* os.makedirs(directory) when the directory does not exist.
Makedirs(dir) == IF dir.exists THEN dir ELSE Folder(<<>>)

\* Mutant: the file is opened for appending (mode="a"): a file that exists
\* keeps its lines and gets the header and the rows after them.
WriteCsv_Append(files, name, content) ==
    IF name \in DOMAIN files
    THEN DictSet(files, name,
                 Csv(files[name].header,
                     files[name].rows \o <<content.header>> \o content.rows))
    ELSE DictSet(files, name, content)

\* to_csv opens the file for writing: the content replaces what was there.
WriteCsv(files, name, content) == DictSet(files, name, content)

\* The loop of save_as_csv over `keys`, the keys not yet written.
RECURSIVE WriteTables(_, _)
WriteTables(files, keys) ==
    IF keys = {} THEN files
    ELSE LET key == CHOOSE k \in keys : TRUE
         IN  WriteTables(WriteCsv(files, FileName(key),
                                  to_csv(sitemap_dataframes[key])),
                         keys \ {key})

\* History: one call of save_as_csv, with the catalog it was made on.
DirSave(before, after) ==
    [catalog |-> sitemap_dataframes, before |-> before, after |-> after]

\* SitemapParser.save_as_csv(directory), between two calls of start_parsing.
\* Two keys never give the same file name, so the order of the dictionary
\* does not show in the files.
SaveAsCsv ==
    /\ pc \in {"idle", "done"}
    /\ Len(dir_saves) < MaxSaves
    /\ directory' =
           Folder(WriteTables(Makedirs(directory).files,
                              DOMAIN sitemap_dataframes))
    /\ dir_saves' = Append(dir_saves, DirSave(directory, directory'))
    /\ UNCHANGED <<sitemap_vars, link_vars, csv_file, csv_saves, detail_vars,
                   pure_vars, sites_vars>>

\* The fields pandas.read_csv reads as a missing value: the empty field and
\* the markers of a missing value.
NaFields == {<<>>, <<"NA">>, <<"NaN">>, <<"nan">>, <<"null">>, <<"N/A">>}

\* A field as read_csv hands it back.
read_field(field) == IF field \in NaFields THEN NaN ELSE field

\* pandas.read_csv(filepath): the first line names the columns (a column
\* without a name is named Unnamed: n, counted from 0), every other line is
\* a row.
read_csv(content) ==
    [columns |-> [j \in DOMAIN content.header |->
                     IF content.header[j] = <<>> THEN <<"Unnamed:", j - 1>>
                     ELSE content.header[j]],
     rows |-> [i \in DOMAIN content.rows |->
                  [j \in DOMAIN content.rows[i] |->
                      read_field(content.rows[i][j])]]]

\* The file of a key is read back, after save_as_csv wrote it.
ReadCsv ==
    /\ pc \in {"idle", "done"}
    /\ dir_saves # <<>>
    /\ output = NoOutput
    /\ \E key \in DOMAIN dir_saves[Len(dir_saves)].catalog :
          output' = [outcome |-> "returned", op |-> "read_csv",
                     save |-> Len(dir_saves), key |-> key,
                     value |-> read_csv(directory.files[FileName(key)])]
    /\ UNCHANGED input
    /\ UNCHANGED <<sitemap_vars, link_vars, save_vars, detail_vars,
                   sites_vars>>

\* History: one call of save_to_csv, with the table it was made on.
CsvSave(before, after, raised) ==
    [table |-> df, before |-> before, after |-> after, raised |-> raised]

\* Mutant: the table is written whatever it holds.
SaveToCsv_AlwaysWrites ==
    /\ lpc = "idle"
    /\ Len(csv_saves) < MaxSaves
    /\ csv_file' = File(link_to_csv(df))
    /\ csv_saves' = Append(csv_saves, CsvSave(csv_file, csv_file', FALSE))
    /\ UNCHANGED <<sitemap_vars, link_vars, directory, dir_saves, detail_vars,
                   pure_vars, sites_vars>>

\* LinkScraper.save_to_csv(file_name): a message when the table is empty,
\* the file otherwise.
SaveToCsv ==
    /\ lpc = "idle"
    /\ Len(csv_saves) < MaxSaves
    /\ IF Empty(df)
       THEN csv_file' = csv_file
       ELSE csv_file' = File(link_to_csv(df))
    /\ csv_saves' = Append(csv_saves, CsvSave(csv_file, csv_file', FALSE))
    /\ UNCHANGED <<sitemap_vars, link_vars, directory, dir_saves, detail_vars,
                   pure_vars, sites_vars>>

(***************************************************************************)
(* DataScraper                                                             *)
(***************************************************************************)
\* fetch_content returned None.
None == [page |-> FALSE]

\* scrape was not called.
NotScraped == [outcome |-> "none"]

\* What a selector finds on the page: nothing, or the first element that
\* matches, with its text and the attribute the code reads (content, href);
\* for ".description p a", all the anchors that match.
Elem(present, text, has_attr, attr, anchors) ==
    [present |-> present, text |-> text, has_attr |-> has_attr,
     attr |-> attr, anchors |-> anchors]

NoElem == Elem(FALSE, <<>>, FALSE, <<>>, <<>>)

TextElem(text) == Elem(TRUE, text, FALSE, <<>>, <<>>)

AttrElem(value) == Elem(TRUE, <<>>, TRUE, value, <<>>)

\* An element without the attribute the code reads.
BareElem == Elem(TRUE, <<>>, FALSE, <<>>, <<>>)

Anchors(texts) == Elem(texts # <<>>, <<>>, FALSE, <<>>, texts)

\* The keys of the dictionary scrape returns.
Fields ==
    {"updated_date", "views", "description", "phone", "email", "website",
     "reviews", "related_categories", "postal_code", "fax_number"}

\* The pages: per key, what its selector finds.
Pages ==
    [updated_date : {NoElem, TextElem(<<"Last", " ", "Updated", " ", ":", " ",
                                        "2024-01-05">>)},
     views : {NoElem, TextElem(<<"12", " ", "views">>),
              TextElem(<<"1,234", " ", "views">>)},
     description : {NoElem, TextElem(<<" ", "A", " ", " ", "shop", " ">>)},
     phone : {NoElem, AttrElem(<<"555">>), BareElem},
     email : {NoElem, AttrElem(<<"a@b">>)},
     website : {NoElem, AttrElem(P1), BareElem},
     reviews : {NoElem, TextElem(<<"Great">>)},
     related_categories : {Anchors(<<>>),
                           Anchors(<< <<"Banks">>, <<" ", "Loans">> >>)},
     postal_code : {NoElem, AttrElem(<<"10001">>)},
     fax_number : {NoElem, AttrElem(<<"556">>)}]

\* What fetch_content hands to scrape: None, or the soup of a page.
Soup(elems) == [page |-> TRUE, elems |-> elems]

Soups == {None} \cup {Soup(elems) : elems \in Pages}

\* sep.join(pieces)
RECURSIVE Join(_, _)
Join(pieces, sep) ==
    IF pieces = <<>> THEN <<>>
    ELSE IF Len(pieces) = 1 THEN pieces[1]
    ELSE pieces[1] \o sep \o Join(Tail(pieces), sep)

\* clean_text: " ".join(text.split()), "" for None and for "".
clean_text(text) ==
    LET NotEmpty(piece) == piece # <<>>
    IN  Join(SelectSeq(Split(text, " "), NotEmpty), <<" ">>)

\* int(text): the number a string of digits writes, ValueError otherwise.
Digits == ("12" :> 12) @@ ("555" :> 555)

IsInt(text) == Len(text) = 1 /\ text[1] \in DOMAIN Digits

\* The value of an expression, or the exception it raised.
Value(v) == [raised |-> FALSE, value |-> v]

Raise == [raised |-> TRUE, value |-> <<>>]

\* clean_text(elem.text.replace(old, "")) if elem else ""
text_without(elem, old) ==
    IF elem.present THEN Value(clean_text(Remove(elem.text, old)))
    ELSE Value(<<>>)

\* clean_text(description_elem.text) if description_elem else ""
description_text(elem) ==
    IF elem.present THEN Value(clean_text(elem.text)) ELSE Value(<<>>)

\* clean_text(elem["content"]) if elem else "": KeyError when the element
\* has no content attribute.
meta_content(elem) ==
    IF elem.present
    THEN IF elem.has_attr THEN Value(clean_text(elem.attr)) ELSE Raise
    ELSE Value(<<>>)

\* Mutant: the selector's result is used without the test, None.text raises
\* AttributeError.
views_Unguarded(elem) ==
    IF elem.present
    THEN LET text == clean_text(Remove(elem.text, <<"views">>))
         IN  IF IsInt(text) THEN Value(Digits[text[1]]) ELSE Raise
    ELSE Raise

\* int(clean_text(elem.text.replace("views", ""))) if elem else 0
views(elem) ==
    IF elem.present
    THEN LET text == clean_text(Remove(elem.text, <<"views">>))
         IN  IF IsInt(text) THEN Value(Digits[text[1]]) ELSE Raise
    ELSE Value(0)

\* clean_text(elem.get("href")) if elem else ""
website(elem) ==
    IF elem.present
    THEN Value(clean_text(IF elem.has_attr THEN elem.attr ELSE <<>>))
    ELSE Value(<<>>)

\* clean_text(elem.text) if elem else "No reviews posted"
reviews(elem) ==
    IF elem.present THEN Value(clean_text(elem.text))
    ELSE Value(<<"No", " ", "reviews", " ", "posted">>)

\* ", ".join(clean_text(a.text) for a in the anchors found)
related_categories(elem) ==
    Value(Join([n \in DOMAIN elem.anchors |-> clean_text(elem.anchors[n])],
               <<",", " ">>))

\* The entry of the dictionary under key.
Entry(key, elems) ==
    CASE key = "updated_date" ->
             text_without(elems.updated_date,
                          <<"Last", " ", "Updated", " ", ":", " ">>)
      [] key = "views" -> views(elems.views)
      [] key = "description" -> description_text(elems.description)
      [] key = "phone" -> meta_content(elems.phone)
      [] key = "email" -> meta_content(elems.email)
      [] key = "website" -> website(elems.website)
      [] key = "reviews" -> reviews(elems.reviews)
      [] key = "related_categories" ->
             related_categories(elems.related_categories)
      [] key = "postal_code" -> meta_content(elems.postal_code)
      [] key = "fax_number" -> meta_content(elems.fax_number)

\* DataScraper.scrape(soup): the dictionary, {} for None, or the exception
\* one of the entries raised.
scrape(page) ==
    IF page.page
    THEN IF \E key \in Fields : Entry(key, page.elems).raised
         THEN [outcome |-> "raised"]
         ELSE [outcome |-> "dict",
               data |-> [key \in Fields |-> Entry(key, page.elems).value]]
    ELSE [outcome |-> "empty"]

\* The detail pages: two that read well and one whose view count is written
\* with a thousands separator.
ShopPage ==
    [updated_date |-> TextElem(<<"Last", " ", "Updated", " ", ":", " ",
                                "2024-01-05">>),
     views |-> TextElem(<<"12", " ", "views">>),
     description |-> TextElem(<<" ", "A", " ", " ", "shop", " ">>),
     phone |-> AttrElem(<<"555">>),
     email |-> AttrElem(<<"a@b">>),
     website |-> AttrElem(P1),
     reviews |-> TextElem(<<"Great">>),
     related_categories |-> Anchors(<< <<"Banks">>, <<" ", "Loans">> >>),
     postal_code |-> AttrElem(<<"10001">>),
     fax_number |-> AttrElem(<<"556">>)]

BankPage ==
    [updated_date |-> NoElem, views |-> NoElem, description |-> NoElem,
     phone |-> NoElem, email |-> NoElem, website |-> NoElem,
     reviews |-> NoElem, related_categories |-> Anchors(<<>>),
     postal_code |-> NoElem, fax_number |-> NoElem]

BusyPage == [ShopPage EXCEPT !.views = TextElem(<<"1,234", " ", "views">>)]

\* The URLs of the detail pages, and what a URL may answer.
D1 == domain \o <<"/", "shop", "/", "1">>
D2 == domain \o <<"/", "shop", "/", "2">>

DetailUrls == {D1, D2}

DetailResponse(status, elems) == [status |-> status, elems |-> elems]

DetailResponses ==
    {DetailResponse("http_error", BankPage),
     DetailResponse("transport_error", BankPage),
     DetailResponse("ok", ShopPage), DetailResponse("ok", BankPage),
     DetailResponse("ok", BusyPage)}

\* The lists scrape_sites is called with.
SitesLists ==
    {<<>>} \cup {<<x>> : x \in DetailUrls} \cup {<<x, y>> : x, y \in DetailUrls}

\* DataScraper.fetch_content(url): the soup of the page, None when the
\* request raised a RequestException.
DataFetchContent(url) ==
    IF detail_web[url].status = "ok" THEN Soup(detail_web[url].elems)
    ELSE None

\* The loop of scrape_sites over the URLs left, from the list d: the list
\* it leaves, and whether an exception ended it.
RECURSIVE scrape_sites(_, _)
scrape_sites(d, urls) ==
    IF urls = <<>> THEN [data |-> d, raised |-> FALSE]
    ELSE LET soup_ == DataFetchContent(urls[1])
             scraped_data == scrape(soup_)
         IN  IF scraped_data.outcome = "raised"
             THEN [data |-> d, raised |-> TRUE]
             ELSE scrape_sites(IF scraped_data.outcome = "dict"
                               THEN Append(d, scraped_data.data) ELSE d,
                               Tail(urls))

\* History: one call of scrape_sites.
SitesCall(urls, before, after, raised) ==
    [sites_list |-> urls, before |-> before, after |-> after,
     raised |-> raised]

\* A call of scrape_sites(sites_list).
ScrapeSites ==
    /\ Len(site_calls) < MaxCalls
    /\ \E urls \in SitesLists :
          LET end == scrape_sites(data, urls)
          IN  /\ data' = end.data
              /\ site_calls' =
                     Append(site_calls,
                            SitesCall(urls, data, end.data, end.raised))
    /\ UNCHANGED detail_web
    /\ UNCHANGED <<sitemap_vars, link_vars, save_vars, detail_vars, pure_vars>>

\* A call of scrape(soup).
DetailScrape ==
    /\ scraped = NotScraped
    /\ scraped' = scrape(soup)
    /\ UNCHANGED soup
    /\ UNCHANGED <<sitemap_vars, link_vars, save_vars, pure_vars, sites_vars>>

(***************************************************************************)
(* Calls of the functions of SitemapParser on one URL                      *)
(***************************************************************************)
\* A path segment: its stem and what follows the stem from its first dot.
Segment(stem, ext) == [stem |-> stem, ext |-> ext]

Seg_a == Segment(<<"a">>, <<>>)
Seg_b == Segment(<<"b">>, <<>>)
Seg_c == Segment(<<"c">>, <<>>)
Seg_sitemap == Segment(<<"sitemap">>, <<>>)
Seg_a_xml == Segment(<<"a">>, <<".", "xml">>)
Seg_a_xml_gz == Segment(<<"a">>, <<".", "xml", ".", "gz">>)
Seg_sitemap_php == Segment(<<"sitemap">>, <<".", "php">>)

UrlSegments ==
    {Seg_a, Seg_b, Seg_c, Seg_sitemap, Seg_a_xml, Seg_a_xml_gz,
     Seg_sitemap_php}

\* The paths of the URLs: up to two segments, and a/b/c.
UrlPaths ==
    {<<>>} \cup {<<x>> : x \in UrlSegments}
           \cup {<<x, y>> : x, y \in UrlSegments}
           \cup {<<Seg_a, Seg_b, Seg_c>>}

\* Query strings: none, one without a dot or a slash, one with a dot, one
\* that carries a path.
NoQuery == <<>>
PlainQuery == <<"?v=1">>
DottedQuery == <<"?v=1", ".", "2">>
PathQuery == <<"?file=", "/", "maps", "/", "b", ".", "xml">>

UrlQueries == {NoQuery, PlainQuery, DottedQuery, PathQuery}

\* A URL of the domain, by its parts.  The URL without a path ends in the
\* slash.
UrlInputs ==
    {u \in [op : {"url"}, path : UrlPaths, slash : BOOLEAN,
            query : UrlQueries] : u.path = <<>> => u.slash}

\* The text of a path: each segment after a slash.
RECURSIVE PathText(_)
PathText(path) ==
    IF path = <<>> THEN <<>>
    ELSE <<"/">> \o path[1].stem \o path[1].ext \o PathText(Tail(path))

\* The text of a URL.
UrlText(u) ==
    domain \o PathText(u.path)
           \o (IF u.slash THEN <<"/">> ELSE <<>>) \o u.query

Returned_(name, value) ==
    [outcome |-> "returned", op |-> name, value |-> value]

\* extract_subdirectories([url]): the table of the one URL.
ExtractSubdirectories ==
    /\ input.op = "url"
    /\ output = NoOutput
    /\ output' = Returned_("extract_subdirectories",
                           extract_subdirectories(<<UrlText(input)>>))
    /\ UNCHANGED input
    /\ UNCHANGED <<sitemap_vars, link_vars, save_vars, detail_vars,
                   sites_vars>>

\* generate_key(url)
GenerateKey ==
    /\ input.op = "url"
    /\ output = NoOutput
    /\ output' = Returned_("generate_key", generate_key(UrlText(input)))
    /\ UNCHANGED input
    /\ UNCHANGED <<sitemap_vars, link_vars, save_vars, detail_vars,
                   sites_vars>>

(***************************************************************************)
(* StockDataCollector                                                      *)
(***************************************************************************)
\* An entry of the JSON object the API answers: its key, its value (the
\* time series as pairs of a timestamp and the five cells of its record, a
\* text otherwise) and whether the entry is a time series.
JsonEntry(key, value, series) ==
    [key |-> key, value |-> value, series |-> series]

Stamp1 == <<"2024-01-02", " ", "09:30:00">>
Stamp2 == <<"2024-01-02", " ", "09:35:00">>

MetaData == JsonEntry(<<"Meta", " ", "Data">>, <<"IBM">>, FALSE)

TimeSeries5min ==
    JsonEntry(<<"Time", " ", "Series", " ", "(5min)">>,
              << <<Stamp1, << <<"12">>, <<"555">>, <<"12">>, <<"12">>,
                             <<"555">> >> >> >>,
              TRUE)

TimeSeriesDaily ==
    JsonEntry(<<"Time", " ", "Series", " ", "(Daily)">>,
              << <<Stamp2, << <<"555">>, <<"555">>, <<"12">>, <<"n/a">>,
                             <<"12">> >> >>,
                 <<Stamp1, << <<"12">>, <<"12">>, <<"12">>, <<"12">>,
                             <<"12">> >> >> >>,
              TRUE)

ErrorMessage ==
    JsonEntry(<<"Error", " ", "Message">>, <<"Invalid", " ", "API", " ", "call">>,
              FALSE)

RateLimitNote ==
    JsonEntry(<<"Note">>, <<"5", " ", "calls", " ", "per", " ", "minute">>,
              FALSE)

\* A key that is no time series although it begins alike.
TimeZone == JsonEntry(<<"Time", " ", "Zone">>, <<"US/Eastern">>, FALSE)

JsonEntries ==
    {MetaData, TimeSeries5min, TimeSeriesDaily, ErrorMessage, RateLimitNote,
     TimeZone}

\* The bodies of an answer: a text that is no JSON, or a JSON object of up
\* to two entries.
NotJson == [json |-> FALSE, entries |-> <<>>]

Json(entries) == [json |-> TRUE, entries |-> entries]

StockBodies ==
    {NotJson, Json(<<>>)}
        \cup {Json(<<x>>) : x \in JsonEntries}
        \cup {Json(<<e[1], e[2]>>) :
                  e \in {d \in JsonEntries \X JsonEntries : d[1] # d[2]}}

StockInputs ==
    [op : {"stock"}, status : {"ok", "http_error", "transport_error"},
     body : StockBodies]

\* The value None.
NoData == [data |-> FALSE, entries |-> <<>>]

\* fetch_intraday_data: the decoded JSON object, or None when the request
\* or the decoding raised.
fetch_intraday_data(answer) ==
    IF answer.status = "ok" /\ answer.body.json
    THEN [data |-> TRUE, entries |-> answer.body.entries]
    ELSE NoData

\* pd.to_datetime of a timestamp.
to_datetime(text) == [date |-> text[1], time |-> text[3]]

\* pd.to_numeric(cell, errors="coerce")
to_numeric(cell) == IF IsInt(cell) THEN Digits[cell[1]] ELSE NaN

\* The DataFrame of a time series: a row per timestamp, in the order of the
\* object, with the five columns by name.
StockFrame(series) ==
    [n \in 1..Len(series) |->
        [index |-> to_datetime(series[n][1]),
         Open |-> to_numeric(series[n][2][1]),
         High |-> to_numeric(series[n][2][2]),
         Low |-> to_numeric(series[n][2][3]),
         Close |-> to_numeric(series[n][2][4]),
         Volume |-> to_numeric(series[n][2][5])]]

\* key.startswith("Time Series")
IsTimeSeriesKey(key) == StartsWith(key, <<"Time", " ", "Series">>)

\* get_stock_dataframe: the empty DataFrame for None and for the empty
\* object; otherwise the frame of the first entry whose key starts with
\* "Time Series", and StopIteration out of next() when there is none.
get_stock_dataframe(answer) ==
    LET intraday_data == fetch_intraday_data(answer)
        found == {n \in 1..Len(intraday_data.entries) :
                      IsTimeSeriesKey(intraday_data.entries[n].key)}
    IN  IF intraday_data.data /\ intraday_data.entries # <<>>
        THEN IF found = {}
             THEN [outcome |-> "raised", op |-> "get_stock_dataframe",
                   error |-> "StopIteration"]
             ELSE Returned_("get_stock_dataframe",
                            StockFrame(intraday_data.entries[Min(found)].value))
        ELSE Returned_("get_stock_dataframe", <<>>)

\* A call of fetch_intraday_data().
FetchIntradayData ==
    /\ input.op = "stock"
    /\ output = NoOutput
    /\ output' = Returned_("fetch_intraday_data", fetch_intraday_data(input))
    /\ UNCHANGED input
    /\ UNCHANGED <<sitemap_vars, link_vars, save_vars, detail_vars,
                   sites_vars>>

\* A call of get_stock_dataframe().
GetStockDataframe ==
    /\ input.op = "stock"
    /\ output = NoOutput
    /\ output' = get_stock_dataframe(input)
    /\ UNCHANGED input
    /\ UNCHANGED <<sitemap_vars, link_vars, save_vars, detail_vars,
                   sites_vars>>

(***************************************************************************)
(* Calls of LinkScraper.parse_for_links on one page                        *)
(***************************************************************************)
\* An anchor that carries a class itself.
AClass(cls, href) ==
    [tag |-> "a", class |-> cls, has_href |-> TRUE, href |-> href,
     children |-> <<>>]

\* Pieces of a page: the same href on two anchors; a container in a
\* container of the same class; anchors without a link; a container of
\* another class around one; an anchor outside every container; three
\* containers in one another; an anchor that carries the class; a container
\* in a container in a container of the same class.
TwoAnchors == Div("c4", <<A(P1), A(P1)>>)
Nested == Div("c4", <<Div("c4", <<A(RelP2)>>)>>)
NoLinks == Div("c4", <<A(<<>>), ANoHref, A(RelP1)>>)
Mixed == Div("c1", <<Div("c4", <<A(P2)>>), A(RootP3)>>)
Outside == A(P1)
Sandwich == Div("c4", <<Div("c1", <<Div("c4", <<A(P1), A(RelP2)>>)>>)>>)
ClassOnAnchor == AClass("c4", P1)
Triple == Div("c4", <<A(RootP3), Div("c4", <<Div("c4", <<A(P1)>>)>>)>>)

PagePieces ==
    {TwoAnchors, Nested, NoLinks, Mixed, Outside, Sandwich, ClassOnAnchor,
     Triple}

\* The pages: up to two pieces; the classes asked for.
PageInputs ==
    [op : {"page"},
     content : {<<>>} \cup {<<x>> : x \in PagePieces}
                      \cup {<<x, y>> : x, y \in PagePieces},
     class_name : {"c1", "c4"}]

\* A call of parse_for_links(content, class_name).
ParseForLinks ==
    /\ input.op = "page"
    /\ output = NoOutput
    /\ output' = Returned_("parse_for_links",
                           parse_for_links(input.content, input.class_name))
    /\ UNCHANGED input
    /\ UNCHANGED <<sitemap_vars, link_vars, save_vars, detail_vars,
                   sites_vars>>

(***************************************************************************)
(* Specifications                                                          *)
(***************************************************************************)
SitemapStart ==
    /\ pc = "idle"
    /\ lines = <<>>
    /\ line_no = 1
    /\ stack = <<>>
    /\ sitemap_dataframes = <<>>
    /\ trace = <<>>

\* LinkScraper.__init__
LinkStart ==
    /\ df = <<>>
    /\ lpc = "idle"
    /\ op = "none"
    /\ all_links = <<>>
    /\ cat_content_links = <<>>
    /\ filter_content_links = <<>>
    /\ paging_links = <<>>
    /\ i1 = 1
    /\ i2 = 1
    /\ i3 = 1
    /\ fetched = <<>>
    /\ calls = <<>>

\* No directory, no file, no call of a save method yet.
SaveStart ==
    /\ directory = NoDirectory
    /\ dir_saves = <<>>
    /\ csv_file = NoFile
    /\ csv_saves = <<>>

\* DataScraper.__init__; no page was handed to scrape yet.
DetailStart ==
    /\ soup = None
    /\ scraped = NotScraped

\* No function was called yet.
PureStart ==
    /\ input = NoInput
    /\ output = NoOutput

\* DataScraper.__init__ on a site without detail pages.
SitesStart ==
    /\ detail_web = <<>>
    /\ data = <<>>
    /\ site_calls = <<>>

\* A SitemapParser on any of the webs; the LinkScraper is not used.
SitemapInit ==
    /\ robots \in RobotsResponses
    /\ web \in Webs
    /\ SitemapStart
    /\ link_web = [u \in LinkUrls |-> Html("ok", <<>>)]
    /\ LinkStart
    /\ SaveStart
    /\ DetailStart
    /\ PureStart
    /\ SitesStart

SitemapNext ==
    \/ StartParsing
    \/ RobotsLine
    \/ Return
    \/ LocStep
    \/ CreateDataframe

SitemapSpec == SitemapInit /\ [][SitemapNext]_vars

\* A SitemapParser whose start_parsing is called up to MaxRuns times, on a
\* site whose robots.txt may change between the calls.
RerunInit ==
    /\ robots \in RerunRobots
    /\ web \in { [u \in SitemapUrls \cup LeafUrls |->
                     IF u \in SitemapUrls THEN w[u] ELSE Xml(<<>>)] :
                  w \in [SitemapUrls -> RerunResponses] }
    /\ SitemapStart
    /\ link_web = [u \in LinkUrls |-> Html("ok", <<>>)]
    /\ LinkStart
    /\ SaveStart
    /\ DetailStart
    /\ PureStart
    /\ SitesStart

RerunNext ==
    \/ StartParsing
    \/ RobotsLine
    \/ Return
    \/ LocStep
    \/ CreateDataframe
    \/ StartParsingAgain
    \/ SiteChanges

RerunSpec == RerunInit /\ [][RerunNext]_vars

\* A SitemapParser on a site whose robots.txt holds lines of all forms.
RobotsInit ==
    /\ robots \in LineForms
    /\ web \in { [u \in SitemapUrls \cup LeafUrls \cup {Root, Smarked} |->
                     IF u \in SitemapUrls THEN w[u]
                     ELSE IF u = Smarked THEN Xml(<<Lp>>)
                     ELSE Xml(<<>>)] :
                  w \in [SitemapUrls -> RerunResponses] }
    /\ SitemapStart
    /\ link_web = [u \in LinkUrls |-> Html("ok", <<>>)]
    /\ LinkStart
    /\ SaveStart
    /\ DetailStart
    /\ PureStart
    /\ SitesStart

RobotsSpec == RobotsInit /\ [][SitemapNext]_vars

\* A LinkScraper on any of the sites; the SitemapParser is not used.
LinkInit ==
    /\ link_web \in [LinkUrls -> LinkResponses]
    /\ LinkStart
    /\ robots = Robots("ok", <<>>)
    /\ web = [u \in SitemapUrls \cup LeafUrls |-> Xml(<<>>)]
    /\ SitemapStart
    /\ SaveStart
    /\ DetailStart
    /\ PureStart
    /\ SitesStart

LinkNext ==
    \/ Scrape
    \/ GetDataframe
    \/ SecondLevel
    \/ ThirdLevel
    \/ FourthLevel
    \/ EndLoop
    \/ FinishScrape

LinkSpec == LinkInit /\ [][LinkNext]_vars

\* A directory an earlier session left: a file per key, with other rows than
\* any table of these webs, and a file that is no table.
OldTable == to_csv(extract_subdirectories(<<Lx>>))

OldDirectory ==
    Folder((<<"a", ".", "csv">> :> OldTable)
               @@ (<<"b", ".", "csv">> :> OldTable)
               @@ (<<"notes", ".", "txt">> :> Csv(<<>>, <<>>)))

\* A SitemapParser whose save_as_csv is called before or after
\* start_parsing; the directory may exist before.
SitemapSaveInit ==
    /\ robots \in RerunRobots
    /\ web \in { [u \in SitemapUrls \cup LeafUrls |->
                     IF u \in SitemapUrls THEN w[u] ELSE Xml(<<>>)] :
                  w \in [SitemapUrls -> RerunResponses \cup {Xml(<<Lx, Lp>>)}] }
    /\ SitemapStart
    /\ link_web = [u \in LinkUrls |-> Html("ok", <<>>)]
    /\ LinkStart
    /\ directory \in {NoDirectory, Folder(<<>>), OldDirectory}
    /\ dir_saves = <<>>
    /\ csv_file = NoFile
    /\ csv_saves = <<>>
    /\ DetailStart
    /\ PureStart
    /\ SitesStart

SitemapSaveNext ==
    \/ StartParsing
    \/ RobotsLine
    \/ Return
    \/ LocStep
    \/ CreateDataframe
    \/ SaveAsCsv

SitemapSaveSpec == SitemapSaveInit /\ [][SitemapSaveNext]_vars

\* The same parser, and a reader of the files it wrote.
RoundTripNext ==
    \/ SitemapSaveNext
    \/ ReadCsv

RoundTripSpec == SitemapSaveInit /\ [][RoundTripNext]_vars

\* A DataScraper that is handed the soup of any of the pages, or None.
DetailInit ==
    /\ soup \in Soups
    /\ scraped = NotScraped
    /\ robots = Robots("ok", <<>>)
    /\ web = [u \in SitemapUrls \cup LeafUrls |-> Xml(<<>>)]
    /\ SitemapStart
    /\ link_web = [u \in LinkUrls |-> Html("ok", <<>>)]
    /\ LinkStart
    /\ SaveStart
    /\ PureStart
    /\ SitesStart

DetailNext == DetailScrape

DetailSpec == DetailInit /\ [][DetailNext]_vars

\* The sites of a LinkScraper whose table is saved.
SavedSites ==
    [LinkUrls -> { Html("transport_error", <<>>), Html("ok", DetailPage),
                   Html("ok", FullPage) }]

\* The file an earlier session left.
OldLinkFile == File(link_to_csv(<<P3>>))

\* A LinkScraper whose save_to_csv is called between its other calls; the
\* file may exist before.
LinkSaveInit ==
    /\ link_web \in SavedSites
    /\ LinkStart
    /\ robots = Robots("ok", <<>>)
    /\ web = [u \in SitemapUrls \cup LeafUrls |-> Xml(<<>>)]
    /\ SitemapStart
    /\ directory = NoDirectory
    /\ dir_saves = <<>>
    /\ csv_file \in {NoFile, OldLinkFile}
    /\ csv_saves = <<>>
    /\ DetailStart
    /\ PureStart
    /\ SitesStart

LinkSaveNext ==
    \/ Scrape
    \/ GetDataframe
    \/ SecondLevel
    \/ ThirdLevel
    \/ FourthLevel
    \/ EndLoop
    \/ FinishScrape
    \/ SaveToCsv

LinkSaveSpec == LinkSaveInit /\ [][LinkSaveNext]_vars

\* The components a specification does not use, as constructed.
SitemapUnused ==
    /\ robots = Robots("ok", <<>>)
    /\ web = [u \in SitemapUrls \cup LeafUrls |-> Xml(<<>>)]
    /\ SitemapStart

LinkUnused ==
    /\ link_web = [u \in LinkUrls |-> Html("ok", <<>>)]
    /\ LinkStart

\* A SitemapParser of the domain and one URL handed to its functions.
UrlInit ==
    /\ input \in UrlInputs
    /\ output = NoOutput
    /\ SitemapUnused
    /\ LinkUnused
    /\ SaveStart
    /\ DetailStart
    /\ SitesStart

UrlNext ==
    \/ ExtractSubdirectories
    \/ GenerateKey

UrlSpec == UrlInit /\ [][UrlNext]_vars

\* A DataScraper on any site of detail pages.
SitesInit ==
    /\ detail_web \in [DetailUrls -> DetailResponses]
    /\ data = <<>>
    /\ site_calls = <<>>
    /\ SitemapUnused
    /\ LinkUnused
    /\ SaveStart
    /\ DetailStart
    /\ PureStart

SitesNext == ScrapeSites

SitesSpec == SitesInit /\ [][SitesNext]_vars

\* A LinkScraper and one page handed to parse_for_links.
PageInit ==
    /\ input \in PageInputs
    /\ output = NoOutput
    /\ SitemapUnused
    /\ LinkUnused
    /\ SaveStart
    /\ DetailStart
    /\ SitesStart

PageNext == ParseForLinks

PageSpec == PageInit /\ [][PageNext]_vars

\* A StockDataCollector and the answer the API gives to its request.
StockInit ==
    /\ input \in StockInputs
    /\ output = NoOutput
    /\ SitemapUnused
    /\ LinkUnused
    /\ SaveStart
    /\ DetailStart
    /\ SitesStart

StockNext ==
    \/ FetchIntradayData
    \/ GetStockDataframe

StockSpec == StockInit /\ [][StockNext]_vars

(***************************************************************************)
(* What the claims speak of, read off the web and the history              *)
(***************************************************************************)
\* The URL answers no content: the request failed or the body is empty.
NoContent(u) == web[u].status # "ok" \/ web[u].empty

\* The sitemap URLs robots.txt lists, in line order (none when robots.txt
\* cannot be read).
RECURSIVE ListedIn(_)
ListedIn(ls) ==
    IF ls = <<>> THEN <<>>
    ELSE (IF \E u \in SitemapUrls : Head(ls) = SitemapLine(u)
          THEN <<CHOOSE u \in SitemapUrls : Head(ls) = SitemapLine(u)>>
          ELSE <<>>) \o ListedIn(Tail(ls))

Listed == IF robots.status = "ok" THEN ListedIn(robots.lines) ELSE <<>>

Range(f) == {f[i] : i \in DOMAIN f}

\* The <loc> values of u that end in ".xml": in this web, the sitemap URLs.
IsSitemapUrl(u) == u \in SitemapUrls

XmlLocs(u) == SelectSeq(web[u].locs, IsSitemapUrl)

\* The basename key of each sitemap URL.
KeyOf(u) == IF u = Sb THEN <<"b">> ELSE <<"a">>

\* The URLs column of a table.
Rows(table) == [i \in DOMAIN table |-> table[i].URLs]

Keys == DOMAIN sitemap_dataframes

FetchEvents == {n \in DOMAIN trace : trace[n].ev = "fetch"}

InsertEvents == {n \in DOMAIN trace : trace[n].ev = "insert"}

\* The history a depth-first resolution of u leaves: the fetch of u, then,
\* when u has content, the whole resolution of each ".xml" <loc> in document
\* order, then the insertion of u's table.  depth bounds the nesting.
RECURSIVE Resolution(_, _, _), Resolutions(_, _, _)
Resolution(u, parent, depth) ==
    IF depth = 0 THEN <<>>
    ELSE IF NoContent(u) THEN <<Fetched(u, parent)>>
    ELSE <<Fetched(u, parent)>> \o Resolutions(XmlLocs(u), u, depth - 1)
                                \o <<Inserted(u)>>

Resolutions(us, parent, depth) ==
    IF us = <<>> THEN <<>>
    ELSE Resolution(Head(us), parent, depth) \o Resolutions(Tail(us), parent, depth)

DepthFirstRun ==
    <<Fetched(RobotsUrl, domain)>> \o Resolutions(Listed, RobotsUrl, RecursionLimit)

IsPrefix(s, t) == Len(s) <= Len(t) /\ SubSeq(t, 1, Len(s)) = s

(***************************************************************************)
(* C1                                                                      *)
(***************************************************************************)
\* robots.txt lists sitemaps, and no <loc> of a listed sitemap ends in ".xml".
FlatSitemaps ==
    /\ Listed # <<>>
    /\ \A u \in Range(Listed) : XmlLocs(u) = <<>>

C2_CycleGuarded ==
    /\ pc # "raised"
    /\ \A i, j \in DOMAIN stack :
          i < j => stack[i].sitemap_url # stack[j].sitemap_url

(***************************************************************************)
(* C3                                                                      *)
(***************************************************************************)
RobotsUnavailable == robots.status # "ok" \/ robots.lines = <<>>

C4_DepthFirstPreOrder ==
    /\ IsPrefix(trace, DepthFirstRun)
    /\ pc = "done" => trace = DepthFirstRun

\* A parent with two nested sitemaps, the first an index itself.
C4_Witness ==
    /\ pc = "done"
    /\ \E a, b, c, d, e \in DOMAIN trace :
          /\ a < b /\ b < c /\ c < d /\ d < e
          /\ trace[a] = Fetched(Sda, Sa)
          /\ trace[b] = Fetched(Sb, Sda)
          /\ trace[c] = Inserted(Sda)
          /\ trace[d] = Fetched(Sb, Sa)
          /\ trace[e] = Inserted(Sa)

C6_TableIsFlatLocList ==
    \A k \in Keys :
        \E n \in FetchEvents :
            /\ trace[n].url \in SitemapUrls
            /\ KeyOf(trace[n].url) = k
            /\ ~NoContent(trace[n].url)
            /\ Rows(sitemap_dataframes[k]) = web[trace[n].url].locs

\* The table of an index with a nested sitemap whose content has a URL the
\* index does not list.
C6_Witness ==
    /\ pc = "done"
    /\ <<"a">> \in Keys
    /\ <<"b">> \in Keys
    /\ Rows(sitemap_dataframes[<<"a">>]) = <<Sb, Lp>>
    /\ Rows(sitemap_dataframes[<<"b">>]) = <<Lx, Lp>>

(***************************************************************************)
(* C7                                                                      *)
(***************************************************************************)
Count(S) == Cardinality(S)

FetchesOf(u) == {n \in FetchEvents : trace[n].url = u}

FetchesBy(p) == {n \in FetchEvents : trace[n].parent = p}

InsertsOf(u) == {n \in InsertEvents : trace[n].url = u}

Body(url) == IF Answer(url).status = "ok" THEN Answer(url).page ELSE <<>>

\* The result of the level: the links of the level's class on the page.
LinksAt(url, level) == parse_for_links(Body(url), class_names[level])

Level1Result == LinksAt(base_url, 1)

Level2Result ==
    IF Level1Result = <<>> THEN <<>> ELSE LinksAt(Level1Result[1], 2)

Level3Result ==
    IF Level2Result = <<>> THEN <<>> ELSE LinksAt(Level2Result[1], 3)

Place(url, level) == [url |-> url, level |-> level]

\* The fetches of one crawl: the seed, the first link of the level-1 result,
\* the first link of the level-2 result, every link of the level-3 result.
ExpectedFetches ==
    <<Place(base_url, 1)>>
        \o (IF Level1Result = <<>> THEN <<>> ELSE <<Place(Level1Result[1], 2)>>)
        \o (IF Level2Result = <<>> THEN <<>> ELSE <<Place(Level2Result[1], 3)>>)
        \o [n \in 1..Len(Level3Result) |-> Place(Level3Result[n], 4)]

Places == [n \in DOMAIN fetched |-> Place(fetched[n].url, fetched[n].level)]

\* C8: one crawl fetches the seed, the first link of the level-1 result, the
\* first link of the level-2 result and every link of the level-3 result, and
\* nothing else: no fetch is made for another link of levels 1 and 2, nor for
\* a link of level 4.
C8_FetchedExactly ==
    /\ IsPrefix(Places, ExpectedFetches)
    /\ (lpc = "idle" /\ calls # <<>>) => Places = ExpectedFetches
    /\ (lpc = "idle" /\ calls # <<>>) =>
          {fetched[n].url : n \in DOMAIN fetched} =
              {base_url}
                  \cup (IF Level1Result = <<>> THEN {} ELSE {Level1Result[1]})
                  \cup (IF Level2Result = <<>> THEN {} ELSE {Level2Result[1]})
                  \cup Range(Level3Result)

NeverFetched(url) == \A m \in DOMAIN fetched : fetched[m].url # url

\* A crawl through four levels, each with several links: a level-1 link, a
\* level-2 link and a level-4 link that no fetch asked for.
C8_Witness ==
    /\ lpc = "idle"
    /\ calls # <<>>
    /\ Len(Level1Result) = 3
    /\ Len(Level2Result) = 2
    /\ Len(Level3Result) = 2
    /\ Len(fetched) = 5
    /\ \E n \in DOMAIN Level1Result : NeverFetched(Level1Result[n])
    /\ \E n \in DOMAIN df : NeverFetched(df[n])

(***************************************************************************)
(* C9                                                                      *)
(***************************************************************************)
Failed(url) == Answer(url).status # "ok"

\* The links the fourth level's fetches brought, in the order of the fetches.
RECURSIVE Accumulated(_)
Accumulated(log) ==
    IF log = <<>> THEN <<>>
    ELSE (IF Head(log).level = 4 THEN Head(log).links ELSE <<>>)
             \o Accumulated(Tail(log))

\* The running crawl can take its next step.
CrawlGoesOn == SecondLevel \/ ThirdLevel \/ FourthLevel \/ EndLoop \/ FinishScrape

\* C9: whatever fetches fail, the crawl raises nothing and goes on after a
\* failed fetch; a failed fetch brings no link, no place is fetched twice, and the
\* table holds every link the fourth level's fetches brought.
C9_FailuresAreSilent ==
    /\ lpc # "raised"
    /\ (lpc # "idle" /\ Failed(fetched[Len(fetched)].url)) => ENABLED CrawlGoesOn
    /\ \A n \in DOMAIN fetched : Failed(fetched[n].url) => fetched[n].links = <<>>
    /\ \A n, m \in DOMAIN fetched :
          (fetched[n].level = fetched[m].level /\ fetched[n].no = fetched[m].no)
              => n = m
    /\ all_links = Accumulated(fetched)
    /\ (lpc = "idle" /\ calls # <<>>) => df = Accumulated(fetched)

\* A crawl whose level-3 result has a link that answers links, then one whose
\* fetch fails on transport.
C9_Witness ==
    /\ lpc = "idle"
    /\ Len(fetched) = 5
    /\ fetched[4].level = 4
    /\ fetched[4].links # <<>>
    /\ Answer(fetched[5].url).status = "transport_error"
    /\ df = fetched[4].links

(***************************************************************************)
(* C10                                                                     *)
(***************************************************************************)
\* Two calls of get_dataframe() in a row.
TwoGetDataframe(n) ==
    /\ n + 1 \in DOMAIN calls
    /\ calls[n].op = "get_dataframe"
    /\ calls[n + 1].op = "get_dataframe"

\* C10 as stated: the second of two get_dataframe() calls in a row returns
\* what the first returned and fetches nothing, on every site.
C10_SecondCallNeverFetches ==
    \A n \in DOMAIN calls :
        TwoGetDataframe(n) =>
            /\ calls[n + 1].result = calls[n].result
            /\ calls[n + 1].fetches = 0

\* C10 amended: the second of two get_dataframe() calls in a row returns what
\* the first returned; it fetches nothing when the first returned a table
\* with at least one link, and crawls again when the first returned none.
C10_SecondCallCachedWhenNonEmpty ==
    \A n \in DOMAIN calls :
        TwoGetDataframe(n) =>
            /\ calls[n + 1].result = calls[n].result
            /\ calls[n].result # <<>> => calls[n + 1].fetches = 0
            /\ calls[n].result = <<>> => calls[n + 1].fetches > 0

C10_Witness ==
    /\ TwoGetDataframe(1)
    /\ calls[1].result # <<>>
    /\ calls[1].fetches > 0
    /\ calls[2].fetches = 0
    /\ calls[2].result = calls[1].result

(***************************************************************************)
(* C11                                                                     *)
(***************************************************************************)
\* C11: on a site whose seed page has three level-1 links and whose first
\* level-1 link answers a page with no level-2 link, a crawl fetches the seed
\* and that first link and nothing else (no fetch of level 3 or 4), keeps no
\* link, leaves the table empty and raises nothing.
C11_NoLevel2MatchEndsTheCrawl ==
    (Len(Level1Result) = 3 /\ Level2Result = <<>>) =>
        /\ lpc # "raised"
        /\ Len(fetched) <= 2
        /\ \A n \in DOMAIN fetched : fetched[n].level = n
        /\ Len(fetched) = 2 => fetched[2].url = Level1Result[1]
        /\ all_links = <<>>
        /\ (lpc = "idle" /\ calls # <<>>) => (Len(fetched) = 2 /\ df = <<>>)

\* A finished scrape() on such a site: the first level-1 link answers a page,
\* without level-2 links, and the second level-1 link, which is not followed,
\* answers a page with level-2 links.
C11_Witness ==
    /\ lpc = "idle"
    /\ calls # <<>>
    /\ calls[1].op = "scrape"
    /\ Len(Level1Result) = 3
    /\ Level2Result = <<>>
    /\ Body(Level1Result[1]) # <<>>
    /\ LinksAt(Level1Result[2], 2) # <<>>
    /\ df = <<>>

(***************************************************************************)
(* C12                                                                     *)
(***************************************************************************)
\* The level-4 links of the pages, page after page.
RECURSIVE Level4Links(_)
Level4Links(pages) ==
    IF pages = <<>> THEN <<>>
    ELSE LinksAt(Head(pages), 4) \o Level4Links(Tail(pages))

\* C12: after scrape() the rows of the table are the level-4 links of the
\* first level-3 link's page, then those of the second's, and so on through
\* the level-3 result in its order: one row per link, and no row for a link
\* of levels 1 to 3.
C12_TableIsLevel4Concatenation ==
    (lpc = "idle" /\ calls # <<>>) =>
        /\ df = Level4Links(Level3Result)
        /\ calls[Len(calls)].result = Level4Links(Level3Result)

\* A finished scrape() whose level-3 result has two pages with different
\* level-4 links, the first page with two of them.
C12_Witness ==
    /\ lpc = "idle"
    /\ calls # <<>>
    /\ calls[1].op = "scrape"
    /\ Len(Level3Result) = 2
    /\ Len(LinksAt(Level3Result[1], 4)) = 2
    /\ LinksAt(Level3Result[2], 4) # <<>>
    /\ LinksAt(Level3Result[2], 4)[1] \notin Range(LinksAt(Level3Result[1], 4))
    /\ Len(df) = 3

(***************************************************************************)
(* C13                                                                     *)
(***************************************************************************)
\* What each href of the pages names when it is read from base_url, and when
\* it is read from the page that holds it.
AgainstBase(href) ==
    CASE href = RelP1 -> P1
      [] href = RelP2 -> P2
      [] href = RelGone -> domain \o <<"/", "cat", "/", "gone">>
      [] href = RootP3 -> P3
      [] OTHER -> href

AgainstPage(page_url, href) ==
    IF href \in {RelP1, RelP2, RelGone} /\ page_url = P3
    THEN domain \o <<"/", "shop", "/">> \o href
    ELSE AgainstBase(href)

\* The anchors below the elements of class cls, container after container.
RECURSIVE AnchorsBelow(_)
AnchorsBelow(containers) ==
    IF containers = <<>> THEN <<>>
    ELSE LET IsA(n) == n.tag = "a"
         IN  SelectSeq(Descendants(Head(containers).children), IsA)
                 \o AnchorsBelow(Tail(containers))

AnchorsOf(page, cls) ==
    LET HasClass(n) == n.class = cls
    IN  AnchorsBelow(SelectSeq(Descendants(page), HasClass))

\* The anchors that carry a non-empty href.
WithHref(anchors) ==
    LET Carries(a) == a.has_href /\ a.href # <<>>
    IN  SelectSeq(anchors, Carries)

\* C13: at each of the four levels the links parse_for_links returns are the
\* hrefs of the anchors of the level's class, each read from base_url, one
\* link per anchor that has an href, in document order; where reading the
\* href from the page's own URL names another page, that page is not
\* returned.
C13_ResolvedAgainstBaseUrl ==
    \A n \in DOMAIN fetched :
        LET anchors ==
                AnchorsOf(Body(fetched[n].url), class_names[fetched[n].level])
            live == WithHref(anchors)
        IN  /\ fetched[n].links =
                   [k \in 1..Len(live) |-> AgainstBase(live[k].href)]
            /\ \A k \in 1..Len(live) :
                   AgainstPage(fetched[n].url, live[k].href)
                           # AgainstBase(live[k].href)
                       => AgainstPage(fetched[n].url, live[k].href)
                              \notin Range(fetched[n].links)

\* A crawl that parsed, at level 4, a page of another directory than
\* base_url's with a relative href, and, at level 3, a page with an anchor
\* that has no href.
C13_Witness ==
    /\ \E n \in DOMAIN fetched :
          /\ fetched[n].url = P3
          /\ fetched[n].level = 4
          /\ \E a \in Range(AnchorsOf(Body(P3), "c4")) : a.href = RelP1
          /\ P1 \in Range(fetched[n].links)
    /\ \E n \in DOMAIN fetched :
          /\ fetched[n].level = 3
          /\ ANoHref \in Range(AnchorsOf(Body(fetched[n].url), "c3"))
          /\ Len(fetched[n].links) = 2

(***************************************************************************)
(* C14                                                                     *)
(***************************************************************************)
\* Where the most recent call of start_parsing begins in the history.
LastRunStart ==
    Max({0} \cup {n \in DOMAIN trace : trace[n] = Fetched(RobotsUrl, domain)})

\* C14 as stated: after every call of start_parsing the catalog holds only
\* tables of sitemaps that this call resolved: each key is the key of a table
\* inserted since the call began.
C14_BuiltFreshOnEveryRun ==
    pc = "done" =>
        \A k \in Keys :
            \E n \in InsertEvents :
                /\ n > LastRunStart
                /\ KeyOf(trace[n].url) = k

(***************************************************************************)
(* C15                                                                     *)
(***************************************************************************)
\* The path segments of each URL of the web.
Segments(u) ==
    CASE u = Lp -> << <<"p">>, <<"q">> >>
      [] u = Lx -> << <<"xml">> >>
      [] u = Sa -> << <<"a", ".", "xml">> >>
      [] u = Sb -> << <<"b", ".", "xml">> >>
      [] u = Sda -> << <<"d">>, <<"a", ".", "xml">> >>

\* The largest number of segments among the rows of a table.
Width(table) ==
    IF table = <<>> THEN 0
    ELSE Max({Len(Segments(table[i].URLs)) : i \in DOMAIN table})

\* C15: in every table of the catalog each row has as many subdirectory
\* columns as the longest row of that same table has segments; a row's
\* columns hold its segments in order and then the empty string.
C15_ColumnsPaddedPerTable ==
    \A k \in Keys :
        LET table == sitemap_dataframes[k]
        IN  \A i \in DOMAIN table :
                LET segs == Segments(table[i].URLs)
                    cols == table[i].subdirectory
                IN  /\ DOMAIN cols = 1..Width(table)
                    /\ \A j \in DOMAIN cols :
                           cols[j] = IF j <= Len(segs) THEN segs[j] ELSE <<>>

\* A catalog with two tables of different widths, one of them with a row
\* shorter than the table is wide.
C15_Witness ==
    /\ pc = "done"
    /\ \E k1, k2 \in Keys :
          /\ Width(sitemap_dataframes[k1]) = 1
          /\ Width(sitemap_dataframes[k2]) = 2
          /\ \E i \in DOMAIN sitemap_dataframes[k2] :
                /\ Len(Segments(sitemap_dataframes[k2][i].URLs)) = 1
                /\ sitemap_dataframes[k2][i].subdirectory[2] = <<>>

(***************************************************************************)
(* C16                                                                     *)
(***************************************************************************)
\* The whole text after the marker, trimmed, of every line that begins with
\* the marker, in line order.
RECURSIVE AfterMarker(_)
AfterMarker(ls) ==
    IF ls = <<>> THEN <<>>
    ELSE (IF Head(ls) # <<>> /\ Head(ls)[1] = "Sitemap:"
          THEN <<Strip(Tail(Head(ls)), " ")>>
          ELSE <<>>) \o AfterMarker(Tail(ls))

\* The URLs get_all_sitemaps called parse_sitemap with, in call order.
RobotsCalls ==
    LET FromRobots(e) == e.ev = "fetch" /\ e.parent = RobotsUrl
        made == SelectSeq(trace, FromRobots)
    IN  [n \in DOMAIN made |-> made[n].url]

\* C16 as stated: when get_all_sitemaps has returned, the calls of
\* parse_sitemap it made are one per line that begins with Sitemap:, in line
\* order, each with the whole text after the marker, trimmed; no other line
\* made a call.
C16_OneCallPerMarkedLine ==
    pc = "done" => RobotsCalls = AfterMarker(robots.lines)

\* The same for the robots.txt files whose lines hold the marker at most
\* once.
C16_OneCallPerLineWithOneMarker ==
    (pc = "done" /\ SitemapLine(Smarked) \notin Range(robots.lines))
        => RobotsCalls = AfterMarker(robots.lines)

(***************************************************************************)
(* C17                                                                     *)
(***************************************************************************)
\* The last insertion under the key of the table inserted at n.
LastInsertOfKey(n) ==
    \A m \in InsertEvents : KeyOf(trace[m].url) = KeyOf(trace[n].url) => m <= n

C18_EmptyTableRaisesValueError ==
    \A n \in DOMAIN csv_saves :
        csv_saves[n].table = <<>> => csv_saves[n].raised

(***************************************************************************)
(* C20                                                                     *)
(***************************************************************************)
\* The name of the file of each key of these webs.
NameOf(k) ==
    CASE k = <<"a">> -> <<"a", ".", "csv">>
      [] k = <<"b">> -> <<"b", ".", "csv">>

\* The lines a table gives: the column names URLs, subdirectory1, ... and,
\* per row, the URL, its segments and "" up to the table's width.
ExpectedCsv(table) ==
    Csv(<< <<"URLs">> >> \o [j \in 1..Width(table) |-> <<"subdirectory", j>>],
        [i \in DOMAIN table |->
            <<table[i].URLs>>
                \o [j \in 1..Width(table) |->
                       IF j <= Len(Segments(table[i].URLs))
                       THEN Segments(table[i].URLs)[j] ELSE <<>>]])

\* C20: after each call of save_as_csv the directory exists; for every key
\* of the catalog it holds the file k.csv with the lines of the key's table
\* and nothing of a file of that name from before; every other file is a file
\* that was there before, with the content it had, and no file is gone.
C20_OneFilePerKeyOthersUntouched ==
    \A n \in DOMAIN dir_saves :
        LET catalog == dir_saves[n].catalog
            before == dir_saves[n].before
            after == dir_saves[n].after
            written == {NameOf(k) : k \in DOMAIN catalog}
        IN  /\ after.exists
            /\ written \subseteq DOMAIN after.files
            /\ \A k \in DOMAIN catalog :
                   after.files[NameOf(k)] = ExpectedCsv(catalog[k])
            /\ \A name \in (DOMAIN after.files) \ written :
                   /\ name \in DOMAIN before.files
                   /\ after.files[name] = before.files[name]
            /\ DOMAIN before.files \subseteq DOMAIN after.files
            /\ n = Len(dir_saves) => directory = after

\* A call on a catalog with one key, in a directory that held a file of that
\* name with other rows, a file named after another key and a file that is
\* no table: the first is replaced, the other two are as they were.
C20_Witness ==
    \E n \in DOMAIN dir_saves :
        /\ dir_saves[n].before = OldDirectory
        /\ DOMAIN dir_saves[n].catalog = {<<"a">>}
        /\ dir_saves[n].catalog[<<"a">>] # <<>>
        /\ dir_saves[n].after.files[<<"a", ".", "csv">>] # OldTable
        /\ Len(dir_saves[n].after.files[<<"a", ".", "csv">>].rows) = 2
        /\ dir_saves[n].after.files[<<"b", ".", "csv">>] = OldTable
        /\ <<"notes", ".", "txt">> \in DOMAIN dir_saves[n].after.files

(***************************************************************************)
(* C19                                                                     *)
(***************************************************************************)
\* The selector of the key finds nothing on the page.
Absent(key) ==
    IF key = "related_categories" THEN soup.elems[key].anchors = <<>>
    ELSE ~soup.elems[key].present

\* An element that is there and cannot be read: a view count that is no
\* integer, a meta element without content.
Unreadable ==
    \/ soup.elems.views = TextElem(<<"1,234", " ", "views">>)
    \/ soup.elems.phone = BareElem

EmptyValue(key) == IF key = "views" THEN 0 ELSE <<>>

DefaultOf(key) ==
    IF key = "reviews" THEN <<"No", " ", "reviews", " ", "posted">>
    ELSE EmptyValue(key)

\* C19 as stated: on a fetched page whose elements can all be read, scrape
\* raises nothing and every key whose selector is absent holds the empty
\* string, or 0 for views.
C19_AbsentFieldIsEmpty ==
    (soup.page /\ scraped # NotScraped /\ ~Unreadable) =>
        /\ scraped.outcome = "dict"
        /\ \A key \in Fields : Absent(key) => scraped.data[key] = EmptyValue(key)

\* C19 amended: on a fetched page every key whose selector is absent holds
\* its default, whatever the other selectors find: the empty string, 0 for
\* views and the text "No reviews posted" for reviews.  An absent selector
\* raises nothing: scrape raises only on an element that is there and cannot
\* be read, and returns the dictionary with all ten keys otherwise.
C19_AbsentFieldTakesItsDefault ==
    (soup.page /\ scraped # NotScraped) =>
        /\ scraped.outcome = (IF Unreadable THEN "raised" ELSE "dict")
        /\ scraped.outcome = "dict" =>
              /\ DOMAIN scraped.data = Fields
              /\ \A key \in Fields :
                    Absent(key) => scraped.data[key] = DefaultOf(key)

\* A page with no view count, no review and no date, and with a phone
\* number: the three defaults beside a value that was read.
C19_Witness ==
    /\ soup.page
    /\ scraped.outcome = "dict"
    /\ Absent("views") /\ Absent("reviews") /\ Absent("updated_date")
    /\ ~Absent("phone")
    /\ scraped.data["views"] = 0
    /\ scraped.data["reviews"] = <<"No", " ", "reviews", " ", "posted">>
    /\ scraped.data["updated_date"] = <<>>
    /\ scraped.data["phone"] = <<"555">>

(***************************************************************************)
(* C25                                                                     *)
(***************************************************************************)
\* The link table when call n was made: what the call before left.
TableBefore(n) == IF n = 1 THEN <<>> ELSE calls[n - 1].result

\* C25: a call of get_dataframe() crawls exactly when the table is empty at
\* the call.  On a non-empty table it makes no fetch and returns that table;
\* on an empty one it makes the fetches of one crawl, each place once, and
\* returns what that crawl gathered.  While a crawl started by
\* get_dataframe() runs, the table is the empty one it was started on.
C25_CrawlsIffTableEmpty ==
    /\ \A n \in DOMAIN calls :
          calls[n].op = "get_dataframe" =>
              IF TableBefore(n) = <<>>
              THEN /\ calls[n].fetches = Len(ExpectedFetches)
                   /\ calls[n].fetches > 0
                   /\ calls[n].result = Level4Links(Level3Result)
              ELSE /\ calls[n].fetches = 0
                   /\ calls[n].result = TableBefore(n)
    /\ (lpc # "idle" /\ op = "get_dataframe") => df = <<>>

\* A first get_dataframe() on the table of __init__ that crawled through the
\* four levels and found links, then a second one that made no fetch.
C25_Witness ==
    /\ lpc = "idle"
    /\ Len(calls) = 2
    /\ calls[1].op = "get_dataframe"
    /\ calls[1].fetches = 5
    /\ Len(calls[1].result) = 3
    /\ calls[2].op = "get_dataframe"
    /\ calls[2].fetches = 0
    /\ df = calls[1].result

(***************************************************************************)
(* C26                                                                     *)
(***************************************************************************)
\* How often u occurs in the sequence seq.
Occurrences(u, seq) == Cardinality({i \in DOMAIN seq : seq[i] = u})

\* The fetches of u made for p.
FetchesOfBy(u, p) == {n \in FetchEvents : trace[n] = Fetched(u, p)}

\* C26: no sitemap URL is remembered.  When start_parsing has returned, a
\* sitemap URL was fetched once per line of robots.txt that lists it and,
\* for every resolution of a sitemap with content, once per <loc> of that
\* sitemap that names it; and its table was written once per fetch that
\* brought content, under its key.
C26_OneResolutionPerReference ==
    pc = "done" =>
        \A u \in SitemapUrls :
            /\ Count(FetchesOfBy(u, RobotsUrl)) = Occurrences(u, Listed)
            /\ \A p \in SitemapUrls :
                  Count(FetchesOfBy(u, p)) =
                      IF NoContent(p) THEN 0
                      ELSE Count(FetchesOf(p)) * Occurrences(u, web[p].locs)
            /\ Count(InsertsOf(u)) =
                  IF NoContent(u) THEN 0 ELSE Count(FetchesOf(u))
            /\ InsertsOf(u) # {} => KeyOf(u) \in Keys

\* Two sitemap indexes of robots.txt that both list b.xml: b.xml is fetched
\* for each and its table written twice.
C26_Witness ==
    /\ pc = "done"
    /\ Listed = <<Sa, Sda>>
    /\ Count(FetchesOfBy(Sb, Sa)) = 1
    /\ Count(FetchesOfBy(Sb, Sda)) = 1
    /\ Count(InsertsOf(Sb)) = 2
    /\ <<"b">> \in Keys

(***************************************************************************)
(* C27                                                                     *)
(***************************************************************************)
\* The sitemap answers a document without any <loc>.
NoLoc(u) == ~NoContent(u) /\ web[u].locs = <<>>

\* C27: a sitemap whose content holds no <loc> gets a table all the same.
\* Each fetch of it is followed by the insertion of its table, and as long as
\* no later insertion is made under its key the table of that key has no
\* row, whatever was under the key before.
C27_NoLocStillInsertsEmptyTable ==
    \A u \in SitemapUrls :
        NoLoc(u) =>
            /\ Count(InsertsOf(u)) <= Count(FetchesOf(u))
            /\ Count(FetchesOf(u)) <= Count(InsertsOf(u)) + 1
            /\ pc = "done" => Count(InsertsOf(u)) = Count(FetchesOf(u))
            /\ \A n \in InsertsOf(u) :
                  LastInsertOfKey(n) =>
                      /\ KeyOf(u) \in Keys
                      /\ sitemap_dataframes[KeyOf(u)] = <<>>

\* robots.txt lists d/a.xml, which has a URL, and then a.xml, which has no
\* <loc>: the table of key a, first of one row, ends with none.
C27_Witness ==
    /\ pc = "done"
    /\ Listed = <<Sda, Sa>>
    /\ web[Sda].locs = <<Lp>>
    /\ NoLoc(Sa)
    /\ \E i, j \in InsertEvents :
          i < j /\ trace[i] = Inserted(Sda) /\ trace[j] = Inserted(Sa)
    /\ sitemap_dataframes[<<"a">>] = <<>>

(***************************************************************************)
(* C30                                                                     *)
(***************************************************************************)
\* The lines of the file of a link table: the column name Link, then one
\* line per link.
ExpectedLinkCsv(table) ==
    [header |-> << <<"Link">> >>,
     rows |-> [n \in 1..Len(table) |-> <<table[n]>>]]

\* C30: a call of save_to_csv on an empty link table leaves the file as it
\* was, absent when it was absent and with its old lines when it was there;
\* a call on a table with links leaves the file holding that table and
\* nothing else.
C30_EmptyTableWritesNothing ==
    \A n \in DOMAIN csv_saves :
        IF csv_saves[n].table = <<>>
        THEN csv_saves[n].after = csv_saves[n].before
        ELSE /\ csv_saves[n].after.exists
             /\ csv_saves[n].after.content = ExpectedLinkCsv(csv_saves[n].table)

\* The file of an earlier crawl survived a save on the empty table, and a
\* save after the crawl replaced it.
C30_Witness ==
    /\ Len(csv_saves) = 2
    /\ csv_saves[1].table = <<>>
    /\ csv_saves[1].before = OldLinkFile
    /\ csv_saves[1].after = OldLinkFile
    /\ csv_saves[2].table # <<>>
    /\ csv_saves[2].before = OldLinkFile
    /\ csv_saves[2].after # OldLinkFile
    /\ csv_file = csv_saves[2].after
(***************************************************************************)
(* C21                                                                     *)
(***************************************************************************)
\* The URL of the claim, and the URL of the root.
UrlABC == domain \o <<"/", "a", "/", "b", "/", "c">>

\* The segments of a URL without a query: the texts of the segments of its
\* path, or the empty string alone when the path has none.
PathSegments(u) ==
    IF u.path = <<>> THEN << <<>> >>
    ELSE [j \in 1..Len(u.path) |-> u.path[j].stem \o u.path[j].ext]

Extracted == output.outcome = "returned" /\ output.op = "extract_subdirectories"

\* C21: segment extraction gives a, b, c for https://example.com/a/b/c and
\* the list of the one empty string for https://example.com/; for every URL
\* without a query it gives the segments of the path, one cell each.
C21_SegmentsOfThePath ==
    Extracted =>
        /\ Len(output.value) = 1
        /\ output.value[1].URLs = UrlText(input)
        /\ UrlText(input) = UrlABC =>
               output.value[1].subdirectory = << <<"a">>, <<"b">>, <<"c">> >>
        /\ UrlText(input) = Root =>
               /\ output.value[1].subdirectory = << <<>> >>
               /\ output.value[1].subdirectory # <<>>
        /\ input.query = NoQuery =>
               output.value[1].subdirectory = PathSegments(input)

\* The extraction ran on https://example.com/.
C21_Witness ==
    /\ Extracted
    /\ UrlText(input) = Root
    /\ Len(output.value[1].subdirectory) = 1

(***************************************************************************)
(* C22                                                                     *)
(***************************************************************************)
KeyMade == output.outcome = "returned" /\ output.op = "generate_key"

\* The trailing segment of the path of a URL: the last segment, or the empty
\* string when the path ends in a slash.
TrailingSegment(u) ==
    IF u.slash THEN Segment(<<>>, <<>>) ELSE u.path[Len(u.path)]

\* C22 as stated: the key of every URL is the trailing segment of its path
\* up to its first dot, with or without a query string.
C22_KeyIsStemOfTrailingSegment ==
    KeyMade => output.value = TrailingSegment(input).stem

\* The same for the URLs without a query string.
C22_KeyIsStemWithoutQuery ==
    (KeyMade /\ input.query = NoQuery) =>
        output.value = TrailingSegment(input).stem
(***************************************************************************)
(* C24                                                                     *)
(***************************************************************************)
FrameAsked == output.outcome # "none" /\ output.op = "get_stock_dataframe"

RequestFailed == input.status # "ok" \/ ~input.body.json

\* The answer is a JSON object with entries, none of them a time series.
NoTimeSeries ==
    /\ input.status = "ok"
    /\ input.body.json
    /\ input.body.entries # <<>>
    /\ \A n \in DOMAIN input.body.entries : ~input.body.entries[n].series

EmptyFrameReturned == output.outcome = "returned" /\ output.value = <<>>

\* C24 as stated: get_stock_dataframe returns the empty DataFrame, and
\* raises nothing, when the request failed and when the answer is a JSON
\* object without a time series.
C24_EmptyFrameOnEveryError ==
    (FrameAsked /\ (RequestFailed \/ NoTimeSeries)) => EmptyFrameReturned

\* The part that holds: the empty DataFrame when the request failed, the
\* body was no JSON or the object was empty.
C24_EmptyFrameOnFailedRequest ==
    (FrameAsked /\ (RequestFailed \/ input.body.entries = <<>>)) =>
        EmptyFrameReturned

\* What the code does on an object without a time series.
C24_StopIterationWithoutTimeSeries ==
    (FrameAsked /\ NoTimeSeries) =>
        (output.outcome = "raised" /\ output.error = "StopIteration")
(***************************************************************************)
(* C28                                                                     *)
(***************************************************************************)
\* The links of each piece of a page, read off its markup: one per pair of
\* an element of the class and an anchor with a link inside it, the pairs
\* of an element together and the elements in the order of their opening
\* tags.
PieceLinks(piece, cls) ==
    CASE piece = TwoAnchors ->
             IF cls = "c4" THEN <<P1, P1>> ELSE <<>>
      [] piece = Nested ->
             IF cls = "c4" THEN <<P2, P2>> ELSE <<>>
      [] piece = NoLinks ->
             IF cls = "c4" THEN <<P1>> ELSE <<>>
      [] piece = Mixed ->
             IF cls = "c4" THEN <<P2>> ELSE <<P2, P3>>
      [] piece = Outside -> <<>>
      [] piece = Sandwich ->
             IF cls = "c4" THEN <<P1, P2, P1, P2>> ELSE <<P1, P2>>
      [] piece = ClassOnAnchor -> <<>>
      [] piece = Triple ->
             IF cls = "c4" THEN <<P3, P1, P1, P1>> ELSE <<>>

RECURSIVE PageLinks(_, _)
PageLinks(content, cls) ==
    IF content = <<>> THEN <<>>
    ELSE PieceLinks(content[1], cls) \o PageLinks(Tail(content), cls)

Parsed == output.outcome = "returned" /\ output.op = "parse_for_links"

\* C28: parse_for_links returns one link per pair of an element of the
\* class and an anchor with a non-empty href inside it, element after
\* element in document order, with no link dropped for being there
\* already: an anchor in k such elements gives k links, two anchors with
\* one href give two, an anchor with an empty href or with none gives none.
C28_OneLinkPerContainerAndAnchor ==
    Parsed => output.value = PageLinks(input.content, input.class_name)

\* A page with one href on two anchors and an anchor in three containers.
C28_Witness ==
    /\ Parsed
    /\ input.content = <<TwoAnchors, Triple>>
    /\ input.class_name = "c4"
    /\ output.value = <<P1, P1, P3, P1, P1, P1>>
(***************************************************************************)
(* C29                                                                     *)
(***************************************************************************)
\* The fetch of a URL succeeded.
FetchSucceeded(u) == detail_web[u].status = "ok"

\* The URLs of a list whose fetch succeeded, in the order of the list.
SucceededOf(urls) == SelectSeq(urls, FetchSucceeded)

\* A record is the record of a page: it carries the postal code and the
\* fax number of the page.
MetaOf(elem) == IF elem.present THEN elem.attr ELSE <<>>

IsRecordOf(record, u) ==
    /\ DOMAIN record = Fields
    /\ record.postal_code = MetaOf(detail_web[u].elems.postal_code)
    /\ record.fax_number = MetaOf(detail_web[u].elems.fax_number)

\* A call of scrape_sites added one record per URL whose fetch succeeded,
\* in the order of the list, behind the records it found.
OneRecordPerFetchedUrl(call) ==
    LET ok == SucceededOf(call.sites_list)
    IN  /\ ~call.raised
        /\ Len(call.after) = Len(call.before) + Len(ok)
        /\ SubSeq(call.after, 1, Len(call.before)) = call.before
        /\ \A n \in DOMAIN ok :
               IsRecordOf(call.after[Len(call.before) + n], ok[n])

\* C29 as stated: every call of scrape_sites appends one record per URL of
\* its list whose fetch succeeded, in input order, nothing for a URL whose
\* fetch failed, keeps the records of earlier calls, and goes through the
\* whole list.
C29_OneRecordPerFetchedUrl ==
    \A n \in DOMAIN site_calls : OneRecordPerFetchedUrl(site_calls[n])

\* A page of the list cannot be read: its view count is no integer.
ReadsBusyPage(call) ==
    \E n \in DOMAIN call.sites_list :
        /\ FetchSucceeded(call.sites_list[n])
        /\ detail_web[call.sites_list[n]].elems.views.text
               = <<"1,234", " ", "views">>

\* The same for the calls whose pages can all be read.
C29_OneRecordPerReadablePage ==
    \A n \in DOMAIN site_calls :
        ~ReadsBusyPage(site_calls[n]) => OneRecordPerFetchedUrl(site_calls[n])

\* What the code does on a page that cannot be read: the exception leaves
\* scrape_sites, with the records of the URLs before that page only.
C29_UnreadablePageEndsTheCall ==
    \A n \in DOMAIN site_calls :
        ReadsBusyPage(site_calls[n]) =>
            /\ site_calls[n].raised
            /\ Len(site_calls[n].after)
                   < Len(site_calls[n].before)
                         + Len(SucceededOf(site_calls[n].sites_list))
(***************************************************************************)
(* C23                                                                     *)
(***************************************************************************)
Reloaded == output.outcome = "returned" /\ output.op = "read_csv"

\* The table that was exported to the file read back.
Exported == dir_saves[output.save].catalog[output.key]

\* A cell holds something: it is neither missing nor the empty string.
Populated(cell) == cell # NaN /\ cell # <<>>

\* The subdirectory columns of a table that hold something in some row.
PopulatedColumns(table) ==
    {j \in 1..Width(table) :
        \E i \in DOMAIN table : Populated(table[i].subdirectory[j])}

\* The columns of a reloaded frame, the first left out, that hold something
\* in some row.
PopulatedReloaded(frame) ==
    {j \in 1..(Len(frame.columns) - 1) :
        \E i \in DOMAIN frame.rows : Populated(frame.rows[i][j + 1])}

====
